---------------------------- MODULE Spec2Model ----------------------------
(***************************************************************************)
(* Token-ring network over UDP (ring-network): the ring engine of          *)
(* pkg/network/machine.go, the outbound queue of internal/queue/queue.go,  *)
(* the frame codec of pkg/message/message.go and pkg/crc/crc.go.           *)
(*                                                                         *)
(* Go strings are TLA+ strings (TLC treats a string as the sequence of its *)
(* characters: Len, \o, SubSeq).  An unsigned 32-bit value is a pair       *)
(* <<hi, lo>> of 16-bit halves, since TLC's integers are signed 32-bit.    *)
(***************************************************************************)
EXTENDS Naturals, Sequences, FiniteSets, Bags, TLC

(***************************************************************************)
(* Bytes and unsigned 32-bit arithmetic                                    *)
(***************************************************************************)

\* The printable ASCII characters of codes 32 (space) to 95 (_), and of codes
\* 97 (a) to 126 (~), in order (code 96 cannot be written in a TLA+ string).
AsciiLow == " !\"#$%&'()*+,-./0123456789:;<=>?@ABCDEFGHIJKLMNOPQRSTUVWXYZ[\\]^_"
AsciiHigh == "abcdefghijklmnopqrstuvwxyz{|}~"

\* []byte(data): the byte of a one-character string.
ByteOf == [c \in {SubSeq(AsciiLow, i, i) : i \in 1..Len(AsciiLow)} \cup
                 {SubSeq(AsciiHigh, i, i) : i \in 1..Len(AsciiHigh)} |->
             IF \E i \in 1..Len(AsciiLow) : SubSeq(AsciiLow, i, i) = c
             THEN 31 + (CHOOSE i \in 1..Len(AsciiLow) : SubSeq(AsciiLow, i, i) = c)
             ELSE 96 + (CHOOSE i \in 1..Len(AsciiHigh) : SubSeq(AsciiHigh, i, i) = c)]

\* One bit of the exclusive or of a and b: the bit of weight k.
XorBit(a, b, k) == (((a \div k) + (b \div k)) % 2) * k

\* Bitwise exclusive or of two 16-bit naturals.
Xor(a, b) ==
    XorBit(a, b, 1) +
    XorBit(a, b, 2) +
    XorBit(a, b, 4) +
    XorBit(a, b, 8) +
    XorBit(a, b, 16) +
    XorBit(a, b, 32) +
    XorBit(a, b, 64) +
    XorBit(a, b, 128) +
    XorBit(a, b, 256) +
    XorBit(a, b, 512) +
    XorBit(a, b, 1024) +
    XorBit(a, b, 2048) +
    XorBit(a, b, 4096) +
    XorBit(a, b, 8192) +
    XorBit(a, b, 16384) +
    XorBit(a, b, 32768)

\* Exclusive or, and logical shift right by k < 16, of <<hi, lo>> values.
Xor32(x, y) == <<Xor(x[1], y[1]), Xor(x[2], y[2])>>
Shr32(x, k) == <<x[1] \div (2 ^ k), ((x[1] % (2 ^ k)) * (2 ^ (16 - k))) + (x[2] \div (2 ^ k))>>

(***************************************************************************)
(* pkg/crc: CRC-32 (IEEE), as hash/crc32.ChecksumIEEE computes it          *)
(***************************************************************************)

\* The reflected IEEE polynomial 0xEDB88320.
IEEEPoly == <<60856, 33568>>

\* One round of the table construction: shift right, xor the polynomial in
\* when the bit shifted out is 1.
crcRound(c) == IF c[2] % 2 = 1 THEN Xor32(IEEEPoly, Shr32(c, 1)) ELSE Shr32(c, 1)

\* crc32.IEEETable: eight rounds on each byte value.
crcTable ==
    [i \in 0..255 |->
        LET r[k \in 0..8] ==
                IF k = 0 THEN <<0, i>>
                ELSE CHOOSE v \in {crcRound(c) : c \in {r[k - 1]}} : TRUE
        IN  r[8]]

\* One step of crc32.update: crc = table[byte(crc) ^ b] ^ (crc >> 8).
crcStep(crc, b) == Xor32(crcTable[Xor(crc[2] % 256, b)], Shr32(crc, 8))

\* crc32.ChecksumIEEE([]byte(data)): one table step per byte, from 0xFFFFFFFF,
\* complemented at the end.  (Each step's input is bound through a singleton
\* set, so that TLC evaluates it before the step and not inside it.)
ChecksumIEEE(data) ==
    LET crc[i \in 0..Len(data)] ==
            IF i = 0 THEN <<65535, 65535>>
            ELSE CHOOSE r \in {crcStep(c, ByteOf[SubSeq(data, i, i)]) : c \in {crc[i - 1]}} : TRUE
    IN  Xor32(crc[Len(data)], <<65535, 65535>>)

(***************************************************************************)
(* What the operators of the model may submit, and the draws of math/rand  *)
(***************************************************************************)

MachineNames == <<"Alice", "Bob", "Carol">>
Broadcast == "TODOS"
Destinations == {MachineNames[n] : n \in 1..3} \cup {"Dave", Broadcast}
Payloads == {"hi"}

\* The draws of rand.Float64(), in hundredths, and of rand.Uint32().
RandFloat == {5, 50}
RandUint32 == << <<0, 7>> >>

\* The checksums of the strings the model's frames are made of, computed once.
crcCache ==
    [data \in {o \o ":" \o d \o ":" \o p :
                  o \in {MachineNames[n] : n \in 1..3}, d \in Destinations, p \in Payloads} |->
        ChecksumIEEE(data)]

(***************************************************************************)
(* strconv.FormatUint(v, 10) and strconv.ParseUint(s, 10, 32)              *)
(***************************************************************************)

Digits == "0123456789"

\* v divided by 10: <<quotient, remainder>>.
DivMod10(v) ==
    LET lo == ((v[1] % 10) * 65536) + v[2]
    IN  << <<v[1] \div 10, lo \div 10>>, lo % 10 >>

\* The decimal digits of a number whose quotients by 10, 100, ... are q,
\* the n-th being the first that is zero.
formatDigits(q, n) ==
    LET str[i \in 0..n] ==
            IF i = 0 THEN ""
            ELSE CHOOSE r \in {t \o SubSeq(Digits, d + 1, d + 1) :
                                  t \in {str[i - 1]}, d \in {DivMod10(q[n - i])[2]}} : TRUE
    IN  str[n]

\* strconv.FormatUint(uint64(v), 10): the decimal digits of v, most
\* significant first, "0" for zero.
formatUint(v) ==
    CHOOSE r \in
        {formatDigits(q, CHOOSE k \in 1..10 : q[k] = <<0, 0>> /\ (k = 1 \/ q[k - 1] # <<0, 0>>)) :
            q \in {[i \in 0..10 |->
                      LET quot[j \in 0..10] ==
                              IF j = 0 THEN v
                              ELSE CHOOSE w \in {DivMod10(u)[1] : u \in {quot[j - 1]}} : TRUE
                      IN  quot[i]]}} : TRUE

\* The decimal forms of the checksums and draws of the model, computed once.
formatCache ==
    [v \in {crcCache[data] : data \in DOMAIN crcCache} \cup
           {RandUint32[k] : k \in 1..Len(RandUint32)} |-> formatUint(v)]

FormatUint(v) == IF v \in DOMAIN formatCache THEN formatCache[v] ELSE formatUint(v)

IsDigit(c) == \E i \in 1..10 : SubSeq(Digits, i, i) = c
DigitVal(c) == (CHOOSE i \in 1..10 : SubSeq(Digits, i, i) = c) - 1

\* One character of ParseUint: p is the number so far, c the next character.
parseUintStep(p, c) ==
    IF ~p.ok \/ ~IsDigit(c) \/ p.val[1] > 6553
    THEN [ok |-> FALSE, val |-> <<0, 0>>]
    ELSE LET lo == (p.val[2] * 10) + DigitVal(c)
             hi == (p.val[1] * 10) + (lo \div 65536)
         IN  [ok |-> hi < 65536, val |-> <<hi % 65536, lo % 65536>>]

\* strconv.ParseUint(s, 10, 32): [ok, val]; ok is FALSE on a syntax error (empty,
\* or a character that is no digit) or a range error (more than 32 bits).
parseUint(s) ==
    LET acc[i \in 0..Len(s)] ==
            IF i = 0 THEN [ok |-> TRUE, val |-> <<0, 0>>]
            ELSE CHOOSE r \in {parseUintStep(p, SubSeq(s, i, i)) : p \in {acc[i - 1]}} : TRUE
    IN  IF s = "" THEN [ok |-> FALSE, val |-> <<0, 0>>] ELSE acc[Len(s)]

\* What ParseUint yields for those decimal forms, computed once.
parseUintCache == [s \in {formatCache[v] : v \in DOMAIN formatCache} |-> parseUint(s)]

ParseUint(s) == IF s \in DOMAIN parseUintCache THEN parseUintCache[s] ELSE parseUint(s)

\* CalculateCRC32
CalculateCRC32(data) == IF data \in DOMAIN crcCache THEN crcCache[data] ELSE ChecksumIEEE(data)

\* CalculateCRC32String
CalculateCRC32String(data) == FormatUint(CalculateCRC32(data))

\* VerifyCRC32
VerifyCRC32(data, expectedCRC) == CalculateCRC32(data) = expectedCRC

\* A defective VerifyCRC32String, which accepts an expected checksum it cannot
\* parse: the verification of the checksum (C23) must not survive it.
VerifyCRC32StringLenient(data, expectedCRCStr) ==
    LET p == ParseUint(expectedCRCStr)
    IN  IF ~p.ok THEN TRUE ELSE VerifyCRC32(data, p.val)

\* VerifyCRC32String
VerifyCRC32String(data, expectedCRCStr) ==
    LET p == ParseUint(expectedCRCStr)
    IN  IF ~p.ok THEN FALSE ELSE VerifyCRC32(data, p.val)

\* CreateDataForCRC
CreateDataForCRC(origin, destination, message) ==
    origin \o ":" \o destination \o ":" \o message

(***************************************************************************)
(* Go's strings package, as far as pkg/message uses it                     *)
(***************************************************************************)

\* strings.HasPrefix
HasPrefix(s, prefix) == Len(s) >= Len(prefix) /\ SubSeq(s, 1, Len(prefix)) = prefix

\* strings.TrimPrefix
TrimPrefix(s, prefix) == IF HasPrefix(s, prefix) THEN SubSeq(s, Len(prefix) + 1, Len(s)) ELSE s

\* strings.Index(s, sep) + 1 for a one-character sep: the position of the first sep
\* in s, 0 when there is none.
Index(s, sep) ==
    IF \E i \in 1..Len(s) : SubSeq(s, i, i) = sep
    THEN CHOOSE i \in 1..Len(s) :
            /\ SubSeq(s, i, i) = sep
            /\ \A j \in 1..(i - 1) : SubSeq(s, j, j) # sep
    ELSE 0

\* One cut of SplitN: p is [parts, rest, done] so far.
splitStep(p, sep) ==
    IF p.done THEN p
    ELSE IF Index(p.rest, sep) = 0
    THEN [parts |-> Append(p.parts, p.rest), rest |-> "", done |-> TRUE]
    ELSE [parts |-> Append(p.parts, SubSeq(p.rest, 1, Index(p.rest, sep) - 1)),
          rest |-> SubSeq(p.rest, Index(p.rest, sep) + 1, Len(p.rest)), done |-> FALSE]

\* A defective SplitN, which cuts at every separator: the decoding of a
\* payload that holds a ':' (C26) must not survive it.
SplitAll(s, sep, n) ==
    LET st[k \in 0..Len(s)] ==
            IF k = 0 THEN [parts |-> <<>>, rest |-> s, done |-> FALSE]
            ELSE CHOOSE r \in {splitStep(p, sep) : p \in {st[k - 1]}} : TRUE
    IN  CHOOSE r \in {IF end.done THEN end.parts ELSE Append(end.parts, end.rest) :
                         end \in {st[Len(s)]}} : TRUE

\* strings.SplitN(s, sep, n) for a one-character sep and n > 0: at most n
\* substrings, the last one being the unsplit remainder.
SplitN(s, sep, n) ==
    LET st[k \in 0..(n - 1)] ==
            IF k = 0 THEN [parts |-> <<>>, rest |-> s, done |-> FALSE]
            ELSE CHOOSE r \in {splitStep(p, sep) : p \in {st[k - 1]}} : TRUE
    IN  CHOOSE r \in {IF end.done THEN end.parts ELSE Append(end.parts, end.rest) :
                         end \in {st[n - 1]}} : TRUE

IsSpace(c) == c \in {" ", "\t", "\n", "\r"}

\* strings.TrimSpace: s without its leading and trailing white space.
TrimSpace(s) ==
    IF s = "" THEN s
    ELSE IF ~IsSpace(SubSeq(s, 1, 1)) /\ ~IsSpace(SubSeq(s, Len(s), Len(s))) THEN s
    ELSE LET keep == {i \in 1..Len(s) : ~IsSpace(SubSeq(s, i, i))}
         IN  IF keep = {} THEN ""
             ELSE SubSeq(s, CHOOSE i \in keep : \A j \in keep : i <= j,
                            CHOOSE i \in keep : \A j \in keep : i >= j)

(***************************************************************************)
(* pkg/message: the two wire forms                                         *)
(***************************************************************************)

TokenPacket == "1000"
DataPacket == "2000"

ControlMachineNotExists == "maquinanaoexiste"
ControlACK == "ACK"
ControlNAK == "NAK"

\* fmt.Sprintf("%s;%s:%s:%s:%s:%s", DataPacket, origin, destination, control, crc, message)
FormatRaw(origin, destination, control, crcValue, message) ==
    DataPacket \o ";" \o origin \o ":" \o destination \o ":" \o control \o ":"
               \o crcValue \o ":" \o message

\* NewQueuedMessage (Timestamp: the reading of the clock at creation)
NewQueuedMessage(destination, content, now) ==
    [Destination |-> destination, Content |-> content, Timestamp |-> now, Retries |-> 0]

\* CreateDataPacket
CreateDataPacket(origin, destination, message) ==
    LET crcValue == CalculateCRC32String(CreateDataForCRC(origin, destination, message))
        control == ControlMachineNotExists
    IN  [Type |-> DataPacket, Origin |-> origin, Destination |-> destination,
         Control |-> control, CRC |-> crcValue, Message |-> message,
         RawData |-> FormatRaw(origin, destination, control, crcValue, message)]

\* ParseDataPacket: [err, msg]; err is TRUE when data is no data frame.
parseDataPacket(data) ==
    IF ~HasPrefix(data, DataPacket \o ";") THEN [err |-> TRUE]
    ELSE LET content == TrimPrefix(data, DataPacket \o ";")
             parts == SplitN(content, ":", 5)
         IN  IF Len(parts) # 5 THEN [err |-> TRUE]
             ELSE [err |-> FALSE,
                   msg |-> [Type |-> DataPacket, Origin |-> parts[1], Destination |-> parts[2],
                            Control |-> parts[3], CRC |-> parts[4], Message |-> parts[5],
                            RawData |-> data]]

\* The frames of the model: every origin, destination, control and payload, with
\* the right checksum or a drawn one; and what ParseDataPacket yields for each,
\* computed once.
parseCache ==
    [data \in UNION {{FormatRaw(MachineNames[n], d, c, crcValue, p) :
                         c \in {ControlMachineNotExists, ControlACK, ControlNAK},
                         crcValue \in {CreateDataPacket(MachineNames[n], d, p).CRC} \cup
                                      {FormatUint(RandUint32[k]) : k \in 1..Len(RandUint32)}} :
                     n \in 1..3, d \in Destinations, p \in Payloads} |->
        parseDataPacket(data)]

ParseDataPacket(data) ==
    IF data \in DOMAIN parseCache THEN parseCache[data] ELSE parseDataPacket(data)

\* IsTokenPacket
IsTokenPacket(data) == TrimSpace(data) = TokenPacket

\* CreateTokenPacket
CreateTokenPacket == TokenPacket

\* DataMessage.VerifyIntegrity
VerifyIntegrity(dm) ==
    VerifyCRC32String(CreateDataForCRC(dm.Origin, dm.Destination, dm.Message), dm.CRC)

\* A defective SetControl, which leaves the encoded form as it was: the
\* rewriting of the control (C24) must not survive it.
SetControlKeepingRaw(dm, control) == [dm EXCEPT !.Control = control]

\* DataMessage.SetControl
SetControl(dm, control) ==
    [dm EXCEPT !.Control = control,
               !.RawData = FormatRaw(dm.Origin, dm.Destination, control, dm.CRC, dm.Message)]

\* A defective IntroduceError, which takes the first value rand.Uint32() yields
\* without comparing it with the original checksum: the injection of an error
\* (C25) must not survive it.
IntroduceErrorFirstDraw(dm, probability, roll, draws) ==
    IF roll < probability
    THEN [dm |-> [dm EXCEPT !.CRC = FormatUint(draws[1]),
                            !.RawData = FormatRaw(dm.Origin, dm.Destination, dm.Control,
                                                  FormatUint(draws[1]), dm.Message)],
          introduced |-> TRUE]
    ELSE [dm |-> dm, introduced |-> FALSE]

\* DataMessage.IntroduceError: [dm, introduced].  roll is the draw of
\* rand.Float64() and probability the chance, both in hundredths; draws is the
\* sequence of values rand.Uint32() yields, of which the first whose decimal form
\* differs from the original checksum is taken.
IntroduceError(dm, probability, roll, draws) ==
    IF roll < probability
    THEN LET originalCRC == dm.CRC
             k == CHOOSE j \in 1..Len(draws) :
                     /\ FormatUint(draws[j]) # originalCRC
                     /\ \A h \in 1..(j - 1) : FormatUint(draws[h]) = originalCRC
             corruptedCRC == FormatUint(draws[k])
         IN  [dm |-> [dm EXCEPT !.CRC = corruptedCRC,
                                !.RawData = FormatRaw(dm.Origin, dm.Destination, dm.Control,
                                                      corruptedCRC, dm.Message)],
              introduced |-> TRUE]
    ELSE [dm |-> dm, introduced |-> FALSE]

(***************************************************************************)
(* The ring: three machines, Alice -> Bob -> Carol -> Alice                *)
(***************************************************************************)

\* Bounds of the model.
MaxEnqueue == 1
MaxBurst == 2
MaxCount == 1
MaxFaults == 1
MaxRetries == 1
MaxFill == 12

Node == {1, 2, 3}

\* config.Config of machine n: Alice generates the token.
Config(n) ==
    [MachineName |-> MachineNames[n],
     NextMachineAddr |-> (n % 3) + 1,
     GeneratesToken |-> (n = 1)]

Generator == CHOOSE n \in Node : Config(n).GeneratesToken

\* A status counter, counted up to MaxCount (the value MaxCount reads "MaxCount
\* or more").
Inc(c) == IF c < MaxCount THEN c + 1 ELSE c

VARIABLES
    machines,   \* machines[n]: the Machine of node n
    net,        \* the datagrams in flight: a bag of [to, data]
    clock,      \* the number of enqueues so far (the messages' timestamps)
    goroutines, \* goroutines[n]: the `go generateInitialToken()` not yet run
    watchdog,   \* the generator's tokenWatchdog: [pc, overdue]
    faults,     \* what the environment did so far: [loss, command, overdue, foreign]
    last,       \* the last operation: [op, node, data, out, err]
    loop        \* loop[n]: the receive loop of machine n: [pc, data]

vars == <<machines, net, clock, goroutines, watchdog, faults, last, loop>>

NoData == ""

\* NewMachine
NewMachine(n, errorProbability) ==
    [queue |-> <<>>,
     hasToken |-> FALSE,
     running |-> FALSE,
     tokenTimeout |-> "nil",
     waitingForData |-> FALSE,
     currentDataMsg |-> [Type |-> "nil"],
     errorProbability |-> errorProbability,
     status |-> [HasToken |-> FALSE, TokensProcessed |-> 0, MessagesSent |-> 0,
                 MessagesReceived |-> 0, ErrorsDetected |-> 0, TokensGenerated |-> 0]]

(***************************************************************************)
(* internal/queue                                                          *)
(***************************************************************************)

\* The capacity NewMachine gives the queue.
QueueMaxSize == 10

\* A defective Enqueue, which refuses a message only above the capacity: the
\* bound of the queue (C15) must not survive it.
QueueEnqueueAboveCapacity(q, destination, content, now) ==
    IF Len(q) > QueueMaxSize THEN [queue |-> q, err |-> TRUE]
    ELSE [queue |-> Append(q, NewQueuedMessage(destination, content, now)), err |-> FALSE]

\* MessageQueue.Enqueue: [queue, err]
QueueEnqueue(q, destination, content, now) ==
    IF Len(q) >= QueueMaxSize THEN [queue |-> q, err |-> TRUE]
    ELSE [queue |-> Append(q, NewQueuedMessage(destination, content, now)), err |-> FALSE]

\* A defective Dequeue, which removes the newest message: the order of the
\* queue (C14) must not survive it.
RemoveLastMessage(q) == IF Len(q) = 0 THEN q ELSE SubSeq(q, 1, Len(q) - 1)

\* MessageQueue.Dequeue (and RemoveFirstMessage, its alias): the queue afterwards.
RemoveFirstMessage(q) == IF Len(q) = 0 THEN q ELSE Tail(q)

\* MessageQueue.IncrementRetries
IncrementRetries(q) ==
    IF Len(q) > 0 THEN [q EXCEPT ![1].Retries = @ + 1] ELSE q

\* MessageQueue.IsEmpty
IsEmpty(q) == Len(q) = 0

(***************************************************************************)
(* pkg/network: the handlers.  Each takes the machine (and its node) and   *)
(* yields [m, out]: the machine afterwards and the packets it sent to the  *)
(* next machine, in order.                                                 *)
(***************************************************************************)

\* A defective passToken, which sends the token and keeps hasToken: the
\* uniqueness of the token (C4) must not survive it.
passTokenKeepingIt(mach) ==
    [m |-> mach, out |-> <<CreateTokenPacket>>]

\* Machine.passToken
passToken(mach) ==
    [m |-> [mach EXCEPT !.hasToken = FALSE, !.status.HasToken = FALSE],
     out |-> <<CreateTokenPacket>>]

\* A defective critical section of handleToken, which takes the token without
\* reporting it in the status: the agreement of the status with the machine
\* (C40) must not survive it.
handleTokenCriticalUnreported(mach) ==
    [mach EXCEPT !.hasToken = TRUE,
                 !.status.TokensProcessed = Inc(@)]

\* Machine.handleToken, its critical section: the token is taken.
handleTokenCritical(mach) ==
    [mach EXCEPT !.hasToken = TRUE,
                 !.status.HasToken = TRUE,
                 !.status.TokensProcessed = Inc(@)]

\* Machine.handleToken after its critical section: the hold timer is stopped if
\* there is one and a new one is armed.
handleTokenTimer(mach) == [mach EXCEPT !.tokenTimeout = "armed"]

\* Machine.handleToken
handleToken(mach) ==
    [m |-> handleTokenTimer(handleTokenCritical(mach)), out |-> <<>>]

\* A defective processToken, which passes broadcasts through the injection of
\* errors as well: the exemption of broadcasts (C22) must not survive it.
processTokenInjectingAll(n, mach, roll, draws) ==
    IF ~mach.hasToken THEN [m |-> mach, out |-> <<>>]
    ELSE IF ~IsEmpty(mach.queue)
    THEN LET queuedMsg == Head(mach.queue)
             created == CreateDataPacket(Config(n).MachineName, queuedMsg.Destination,
                                         queuedMsg.Content)
         IN  CHOOSE r \in
                 {[m |-> [mach EXCEPT !.waitingForData = TRUE,
                                      !.currentDataMsg = dataMsg,
                                      !.status.MessagesSent = Inc(@)],
                   out |-> <<dataMsg.RawData>>] :
                     dataMsg \in {IntroduceError(created, mach.errorProbability, roll,
                                                 draws).dm}} : TRUE
    ELSE passToken(mach)

\* A defective processToken, which takes the message off the queue (Dequeue for
\* Peek) when it transmits it: the expiry of the hold timer (C36) must not
\* survive it.
processTokenDequeuing(n, mach, roll, draws) ==
    IF ~mach.hasToken THEN [m |-> mach, out |-> <<>>]
    ELSE IF ~IsEmpty(mach.queue)
    THEN LET queuedMsg == Head(mach.queue)
             created == CreateDataPacket(Config(n).MachineName, queuedMsg.Destination,
                                         queuedMsg.Content)
         IN  CHOOSE r \in
                 {[m |-> [mach EXCEPT !.waitingForData = TRUE,
                                      !.currentDataMsg = dataMsg,
                                      !.queue = Tail(@),
                                      !.status.MessagesSent = Inc(@)],
                   out |-> <<dataMsg.RawData>>] :
                     dataMsg \in {IF queuedMsg.Destination = Broadcast THEN created
                                  ELSE IntroduceError(created, mach.errorProbability, roll,
                                                      draws).dm}} : TRUE
    ELSE passToken(mach)

\* Machine.processToken, the callback of the token-hold timer
processToken(n, mach, roll, draws) ==
    IF ~mach.hasToken THEN [m |-> mach, out |-> <<>>]
    ELSE IF ~IsEmpty(mach.queue)
    THEN LET queuedMsg == Head(mach.queue)
             created == CreateDataPacket(Config(n).MachineName, queuedMsg.Destination,
                                         queuedMsg.Content)
         IN  CHOOSE r \in
                 {[m |-> [mach EXCEPT !.waitingForData = TRUE,
                                      !.currentDataMsg = dataMsg,
                                      !.status.MessagesSent = Inc(@)],
                   out |-> <<dataMsg.RawData>>] :
                     dataMsg \in {IF queuedMsg.Destination = Broadcast THEN created
                                  ELSE IntroduceError(created, mach.errorProbability, roll,
                                                      draws).dm}} : TRUE
    ELSE passToken(mach)

\* A defective forwardMessage, which acknowledges the frame it forwards: the
\* controls of the frames on the ring (C21) must not survive it.
forwardMessageAcking(mach, dataMsg) ==
    [m |-> mach, out |-> <<SetControl(dataMsg, ControlACK).RawData>>]

\* A defective forwardMessage, which sends the frame twice: the forwarding of
\* frames (C33) must not survive it.
forwardMessageTwice(mach, dataMsg) == [m |-> mach, out |-> <<dataMsg.RawData, dataMsg.RawData>>]

\* Machine.forwardMessage
forwardMessage(mach, dataMsg) == [m |-> mach, out |-> <<dataMsg.RawData>>]

\* A defective handleMessageForThisMachine, which forwards the machine's own
\* broadcast once more when it comes back: the end of the broadcast cycle (C29)
\* must not survive it.
handleMessageForThisMachineForwardingOwn(n, mach, dataMsg) ==
    LET counted == [mach EXCEPT !.status.MessagesReceived = Inc(@)]
    IN  IF dataMsg.Destination = Broadcast
        THEN IF dataMsg.Origin = Config(n).MachineName
             THEN [m |-> passToken([counted EXCEPT !.waitingForData = FALSE,
                                                   !.currentDataMsg = [Type |-> "nil"],
                                                   !.queue = RemoveFirstMessage(@)]).m,
                   out |-> <<CreateTokenPacket, dataMsg.RawData>>]
             ELSE forwardMessage(counted, dataMsg)
        ELSE IF VerifyIntegrity(dataMsg)
             THEN [m |-> counted, out |-> <<SetControl(dataMsg, ControlACK).RawData>>]
             ELSE [m |-> [counted EXCEPT !.status.ErrorsDetected = Inc(@)],
                   out |-> <<SetControl(dataMsg, ControlNAK).RawData>>]

\* A defective handleMessageForThisMachine, which acknowledges a frame without
\* verifying it: the answer of the destination (C31) must not survive it.
handleMessageForThisMachineAlwaysAck(n, mach, dataMsg) ==
    LET counted == [mach EXCEPT !.status.MessagesReceived = Inc(@)]
    IN  IF dataMsg.Destination = Broadcast
        THEN IF dataMsg.Origin = Config(n).MachineName
             THEN passToken([counted EXCEPT !.waitingForData = FALSE,
                                            !.currentDataMsg = [Type |-> "nil"],
                                            !.queue = RemoveFirstMessage(@)])
             ELSE forwardMessage(counted, dataMsg)
        ELSE [m |-> counted, out |-> <<SetControl(dataMsg, ControlACK).RawData>>]

\* Machine.handleMessageForThisMachine
handleMessageForThisMachine(n, mach, dataMsg) ==
    LET counted == [mach EXCEPT !.status.MessagesReceived = Inc(@)]
    IN  IF dataMsg.Destination = Broadcast
        THEN IF dataMsg.Origin = Config(n).MachineName
             THEN passToken([counted EXCEPT !.waitingForData = FALSE,
                                            !.currentDataMsg = [Type |-> "nil"],
                                            !.queue = RemoveFirstMessage(@)])
             ELSE forwardMessage(counted, dataMsg)
        ELSE IF VerifyIntegrity(dataMsg)
             THEN [m |-> counted, out |-> <<SetControl(dataMsg, ControlACK).RawData>>]
             ELSE [m |-> [counted EXCEPT !.status.ErrorsDetected = Inc(@)],
                   out |-> <<SetControl(dataMsg, ControlNAK).RawData>>]

\* A defective handleReturnedMessage, which never drops the head of the queue:
\* delivery (C10) must not survive it.
handleReturnedMessageKeepingHead(mach, dataMsg) ==
    IF ~mach.waitingForData \/ mach.currentDataMsg.Type = "nil"
    THEN [m |-> mach, out |-> <<>>]
    ELSE passToken([mach EXCEPT !.waitingForData = FALSE,
                                !.currentDataMsg = [Type |-> "nil"]])

\* A defective handleReturnedMessage, which drops the head on ACK and passes the
\* token but goes on waiting: the agreement of the wait with the head of the
\* queue (C16) must not survive it.
handleReturnedMessageStillWaiting(mach, dataMsg) ==
    IF ~mach.waitingForData \/ mach.currentDataMsg.Type = "nil"
    THEN [m |-> mach, out |-> <<>>]
    ELSE passToken([mach EXCEPT !.queue = RemoveFirstMessage(@)])

\* Machine.handleReturnedMessage
handleReturnedMessage(mach, dataMsg) ==
    IF dataMsg.Destination = Broadcast
    THEN passToken([mach EXCEPT !.queue = RemoveFirstMessage(@),
                                !.waitingForData = FALSE,
                                !.currentDataMsg = [Type |-> "nil"]])
    ELSE IF ~mach.waitingForData \/ mach.currentDataMsg.Type = "nil"
    THEN [m |-> mach, out |-> <<>>]
    ELSE LET cleared == [mach EXCEPT !.waitingForData = FALSE,
                                     !.currentDataMsg = [Type |-> "nil"]]
         IN  passToken(
                 CASE dataMsg.Control = ControlACK ->
                        [cleared EXCEPT !.queue = RemoveFirstMessage(@)]
                   [] dataMsg.Control = ControlNAK ->
                        [cleared EXCEPT !.queue = IncrementRetries(@)]
                   [] dataMsg.Control = ControlMachineNotExists ->
                        [cleared EXCEPT !.queue = RemoveFirstMessage(@)]
                   [] OTHER -> cleared)

\* Machine.handleDataPacket
handleDataPacket(n, mach, dataMsg) ==
    IF dataMsg.Destination = Config(n).MachineName
    THEN handleMessageForThisMachine(n, mach, dataMsg)
    ELSE IF dataMsg.Destination = Broadcast
    THEN handleMessageForThisMachine(n, mach, dataMsg)
    ELSE IF dataMsg.Origin = Config(n).MachineName
    THEN handleReturnedMessage(mach, dataMsg)
    ELSE forwardMessage(mach, dataMsg)

\* A defective handleReceivedData, which takes whatever is no data frame for
\* the token: the dropping of malformed datagrams (C38) must not survive it.
handleReceivedDataTokenByDefault(n, mach, data) ==
    IF IsTokenPacket(data) THEN handleToken(mach)
    ELSE CHOOSE r \in {IF parsed.err THEN handleToken(mach)
                        ELSE handleDataPacket(n, mach, parsed.msg) :
                            parsed \in {ParseDataPacket(data)}} : TRUE

\* Machine.handleReceivedData
handleReceivedData(n, mach, data) ==
    IF IsTokenPacket(data) THEN handleToken(mach)
    ELSE CHOOSE r \in {IF parsed.err THEN [m |-> mach, out |-> <<>>]
                        ELSE handleDataPacket(n, mach, parsed.msg) :
                            parsed \in {ParseDataPacket(data)}} : TRUE

\* Machine.generateInitialToken
generateInitialToken(mach) ==
    [m |-> [mach EXCEPT !.status.TokensGenerated = Inc(@)],
     out |-> <<CreateTokenPacket>>]

\* Machine.QueueMessage: [m, err]
QueueMessage(mach, destination, content, now) ==
    LET r == QueueEnqueue(mach.queue, destination, content, now)
    IN  [m |-> [mach EXCEPT !.queue = r.queue], err |-> r.err]

\* Machine.GetStatus: a copy of the status, with the size of the queue (the
\* name and the time of the last activity are left out).
GetStatus(mach) ==
    [HasToken |-> mach.status.HasToken,
     QueueSize |-> Len(mach.queue),
     TokensProcessed |-> mach.status.TokensProcessed,
     MessagesSent |-> mach.status.MessagesSent,
     MessagesReceived |-> mach.status.MessagesReceived,
     ErrorsDetected |-> mach.status.ErrorsDetected,
     TokensGenerated |-> mach.status.TokensGenerated]

\* A defective GenerateToken, which does not look at hasToken: the refusal of
\* the token command (C9) must not survive it.
GenerateTokenUnchecked(mach) == [err |-> FALSE, spawn |-> TRUE]

\* Machine.GenerateToken: [err, spawn]; spawn is whether `go
\* m.generateInitialToken()` was started.
GenerateToken(mach) ==
    IF mach.hasToken THEN [err |-> TRUE, spawn |-> FALSE]
    ELSE [err |-> FALSE, spawn |-> TRUE]

\* Machine.sendPacket: the datagrams in flight after machine n sent `out`.
sendPacket(n, bag, out) ==
    LET sent[k \in 0..Len(out)] ==
            IF k = 0 THEN bag
            ELSE sent[k - 1] (+) SetToBag({[to |-> Config(n).NextMachineAddr, data |-> out[k]]})
    IN  sent[Len(out)]

\* Machine.sendPacket on the connection of machine `mach`: once Stop has closed
\* it, WriteToUDP fails and nothing is sent.
sendOn(n, mach, bag, out) == IF mach.running THEN sendPacket(n, bag, out) ELSE bag

(***************************************************************************)
(* The operations                                                          *)
(***************************************************************************)

Op(op, n, data, out, err) == [op |-> op, node |-> n, data |-> data, out |-> out, err |-> err]

\* The faults and interventions so far.
FaultCount == faults.loss + faults.command + faults.overdue + faults.foreign

\* Nothing moves on the ring: no datagram in flight, no goroutine to run, no
\* hold timer armed, and the watchdog not about to emit.
Stalled ==
    /\ net = EmptyBag
    /\ \A n \in Node : goroutines[n] = 0 /\ machines[n].tokenTimeout # "armed"
    /\ \A n \in Node : loop[n].pc = "read"
    /\ watchdog.pc # "generate"

\* The machines after NewMachine and Start, up to the receive loop: all run, the
\* generator has started the goroutine of the initial token and its watchdog.
Started(errorProbability) ==
    /\ machines = [n \in Node |-> [NewMachine(n, errorProbability) EXCEPT !.running = TRUE]]
    /\ net = EmptyBag
    /\ clock = 0
    /\ goroutines = [n \in Node |-> IF Config(n).GeneratesToken THEN 1 ELSE 0]
    /\ watchdog = [pc |-> "loop", overdue |-> FALSE]
    /\ faults = [loss |-> 0, command |-> 0, overdue |-> 0, foreign |-> 0]
    /\ last = Op("Start", Generator, NoData, <<>>, FALSE)
    /\ loop = [n \in Node |-> [pc |-> "read", data |-> NoData]]

\* NewMachine fixes the probability of an injected error at 0.1.
Init == Started(10)

\* A goroutine `go generateInitialToken()` of machine n runs.
RunGenerateInitialToken(n) ==
    /\ goroutines[n] > 0
    /\ \E r \in {generateInitialToken(machines[n])} :
           /\ machines' = [machines EXCEPT ![n] = r.m]
           /\ net' = sendOn(n, r.m, net, r.out)
           /\ last' = Op("generateInitialToken", n, NoData, r.out, FALSE)
    /\ goroutines' = [goroutines EXCEPT ![n] = @ - 1]
    /\ UNCHANGED <<clock, watchdog, faults, loop>>

\* The receive loop of machine n reads one datagram and handles it.
Receive(n) ==
    /\ loop[n].pc = "read"
    /\ machines[n].running
    /\ \E d \in BagToSet(net) :
        /\ d.to = n
        /\ \E r \in {handleReceivedData(n, machines[n], d.data)} :
               /\ machines' = [machines EXCEPT ![n] = r.m]
               /\ net' = sendOn(n, r.m, net (-) SetToBag({d}), r.out)
               /\ last' = Op("handleReceivedData", n, d.data, r.out, FALSE)
    /\ UNCHANGED <<clock, goroutines, watchdog, faults, loop>>

\* The token-hold timer of machine n fires: processToken.  An error is injected
\* into a message at most `limit` times.
TimerFiresUpTo(n, limit) ==
    /\ machines[n].tokenTimeout = "armed"
    /\ \E roll \in RandFloat :
        /\ IF roll < machines[n].errorProbability /\ ~IsEmpty(machines[n].queue)
           THEN Head(machines[n].queue).Retries < limit
           ELSE TRUE
        /\ \E r \in {processToken(n, [machines[n] EXCEPT !.tokenTimeout = "fired"], roll,
                                   RandUint32)} :
               /\ machines' = [machines EXCEPT ![n] = r.m]
               /\ net' = sendOn(n, r.m, net, r.out)
               /\ last' = Op("processToken", n, NoData, r.out, FALSE)
    /\ UNCHANGED <<clock, goroutines, watchdog, faults, loop>>

\* The same, an error injected into a message at most MaxRetries times.
TimerFires(n) == TimerFiresUpTo(n, MaxRetries)

\* The operator of machine n submits a message (send or broadcast), the
\* operators at most `limit` messages in all.
Enqueue(n, destination, content, limit) ==
    /\ clock < limit
    /\ clock' = clock + 1
    /\ \E r \in {QueueMessage(machines[n], destination, content, clock + 1)} :
           /\ machines' = [machines EXCEPT ![n] = r.m]
           /\ last' = Op("QueueMessage", n, NoData, <<>>, r.err)
    /\ UNCHANGED <<net, goroutines, watchdog, faults, loop>>

\* The operator of machine n types the token command.
TokenCommand(n) ==
    /\ FaultCount < MaxFaults
    /\ faults' = [faults EXCEPT !.command = @ + 1]
    /\ \E r \in {GenerateToken(machines[n])} :
           /\ goroutines' = IF r.spawn THEN [goroutines EXCEPT ![n] = @ + 1] ELSE goroutines
           /\ last' = Op("GenerateToken", n, NoData, <<>>, r.err)
    /\ UNCHANGED <<machines, net, clock, watchdog, loop>>

\* More than maxTokenCirculationTime passes since lastTokenSeen while the ring
\* is stalled.
TimeElapses ==
    /\ watchdog.pc # "off"
    /\ ~watchdog.overdue
    /\ Stalled
    /\ watchdog' = [watchdog EXCEPT !.overdue = TRUE]
    /\ UNCHANGED <<machines, net, clock, goroutines, faults, last, loop>>

\* The same while the ring is not stalled: the token is late, a fault of the
\* network's timing.
TokenLate ==
    /\ watchdog.pc # "off"
    /\ ~watchdog.overdue
    /\ ~Stalled
    /\ FaultCount < MaxFaults
    /\ faults' = [faults EXCEPT !.overdue = @ + 1]
    /\ watchdog' = [watchdog EXCEPT !.overdue = TRUE]
    /\ UNCHANGED <<machines, net, clock, goroutines, last, loop>>

\* tokenWatchdog, the default branch: lastTokenSeen is now if the machine holds
\* the token.
WatchdogPoll ==
    /\ watchdog.pc = "loop"
    /\ watchdog' = IF machines[Generator].hasToken THEN [watchdog EXCEPT !.overdue = FALSE]
                   ELSE watchdog
    /\ UNCHANGED <<machines, net, clock, goroutines, faults, last, loop>>

\* tokenWatchdog, the ticker branch up to its test: hasToken and the time since
\* lastTokenSeen are read under the read lock, which is then released.
WatchdogTick ==
    /\ watchdog.pc = "loop"
    /\ watchdog' = IF ~machines[Generator].running THEN [watchdog EXCEPT !.pc = "off"]
                   ELSE IF watchdog.overdue /\ ~machines[Generator].hasToken
                   THEN [watchdog EXCEPT !.pc = "generate"]
                   ELSE watchdog
    /\ UNCHANGED <<machines, net, clock, goroutines, faults, last, loop>>

\* tokenWatchdog, the ticker branch after its test: generateInitialToken, and
\* lastTokenSeen is now.
WatchdogGenerate ==
    /\ watchdog.pc = "generate"
    /\ \E r \in {generateInitialToken(machines[Generator])} :
           /\ machines' = [machines EXCEPT ![Generator] = r.m]
           /\ net' = sendOn(Generator, r.m, net, r.out)
           /\ last' = Op("tokenWatchdog", Generator, NoData, r.out, FALSE)
    /\ watchdog' = [pc |-> "loop", overdue |-> FALSE]
    /\ UNCHANGED <<clock, goroutines, faults, loop>>

\* UDP loses a datagram.
Lose ==
    /\ FaultCount < MaxFaults
    /\ faults' = [faults EXCEPT !.loss = @ + 1]
    /\ \E d \in BagToSet(net) :
        /\ net' = net (-) SetToBag({d})
        /\ last' = Op("lost", d.to, d.data, <<>>, FALSE)
    /\ UNCHANGED <<machines, clock, goroutines, watchdog, loop>>

\* The receive loop of machine n, running, reads one datagram.
ReadFromUDP(n) ==
    /\ loop[n].pc = "read"
    /\ machines[n].running
    /\ \E d \in BagToSet(net) :
        /\ d.to = n
        /\ net' = net (-) SetToBag({d})
        /\ loop' = [loop EXCEPT ![n] = [pc |-> "handle", data |-> d.data]]
    /\ UNCHANGED <<machines, clock, goroutines, watchdog, faults, last>>

\* The receive loop of machine n handles the datagram it read: a data frame
\* wholly, a token up to the end of handleToken's critical section.
HandleData(n) ==
    /\ loop[n].pc = "handle"
    /\ IF IsTokenPacket(loop[n].data)
       THEN /\ machines' = [machines EXCEPT ![n] = handleTokenCritical(@)]
            /\ net' = net
            /\ loop' = [loop EXCEPT ![n].pc = "timer"]
            /\ last' = Op("handleReceivedData", n, loop[n].data, <<>>, FALSE)
       ELSE \E r \in {handleReceivedData(n, machines[n], loop[n].data)} :
               /\ machines' = [machines EXCEPT ![n] = r.m]
               /\ net' = sendOn(n, r.m, net, r.out)
               /\ loop' = [loop EXCEPT ![n] = [pc |-> "read", data |-> NoData]]
               /\ last' = Op("handleReceivedData", n, loop[n].data, r.out, FALSE)
    /\ UNCHANGED <<clock, goroutines, watchdog, faults>>

\* The receive loop of machine n, after the critical section of handleToken,
\* arms the hold timer.
SetTokenTimeout(n) ==
    /\ loop[n].pc = "timer"
    /\ machines' = [machines EXCEPT ![n] = handleTokenTimer(@)]
    /\ loop' = [loop EXCEPT ![n] = [pc |-> "read", data |-> NoData]]
    /\ UNCHANGED <<net, clock, goroutines, watchdog, faults, last>>

\* Machine.Stop: the machine no longer runs, its connection is closed, its hold
\* timer is stopped if it is armed.
Stop(n) ==
    /\ machines[n].running
    /\ machines' = [machines EXCEPT ![n].running = FALSE,
                                    ![n].tokenTimeout = IF @ = "armed" THEN "stopped" ELSE @]
    /\ last' = Op("Stop", n, NoData, <<>>, FALSE)
    /\ UNCHANGED <<net, clock, goroutines, watchdog, faults, loop>>

(***************************************************************************)
(* The specifications                                                      *)
(***************************************************************************)

\* The ring without faults: tokens and frames travel, timers fire.
Ring ==
    \/ \E n \in Node : RunGenerateInitialToken(n)
    \/ \E n \in Node : Receive(n)
    \/ \E n \in Node : TimerFires(n)

Watchdog ==
    \/ TimeElapses
    \/ TokenLate
    \/ WatchdogPoll
    \/ WatchdogTick
    \/ WatchdogGenerate

\* Everything: operators submit messages and type the token command, datagrams
\* are lost, the watchdog runs.
Next ==
    \/ Ring
    \/ \E n \in Node, destination \in Destinations, content \in Payloads :
            Enqueue(n, destination, content, MaxEnqueue)
    \/ \E n \in Node : TokenCommand(n)
    \/ Watchdog
    \/ Lose

Spec == Init /\ [][Next]_vars

\* The fault-free ring: no loss, no token command, no watchdog.
NextRing ==
    \/ Ring
    \/ \E n \in Node, destination \in Destinations, content \in Payloads :
            Enqueue(n, destination, content, MaxEnqueue)

RingSpec == Init /\ [][NextRing]_vars

\* The fault-free ring whose operators type the token command.
NextCommand ==
    \/ Ring
    \/ \E n \in Node : TokenCommand(n)

CommandSpec == Init /\ [][NextCommand]_vars

\* Goroutines run, datagrams in flight are received, armed timers fire.
RingFairness ==
    /\ \A n \in Node : WF_vars(RunGenerateInitialToken(n))
    /\ \A n \in Node : WF_vars(Receive(n))
    /\ \A n \in Node : WF_vars(TimerFires(n))

\* Time passes on a stalled ring and the ticker of the watchdog ticks.
WatchdogFairness ==
    /\ WF_vars(TimeElapses)
    /\ WF_vars(WatchdogTick)
    /\ WF_vars(WatchdogGenerate)

\* The fault-free ring without error injection, its messages for another
\* machine, an unknown name or all.
NextDelivery ==
    \/ Ring
    \/ \E n \in Node :
          \E destination \in Destinations \ {Config(n).MachineName}, content \in Payloads :
            Enqueue(n, destination, content, MaxEnqueue)

DeliverySpec == Started(0) /\ [][NextDelivery]_vars /\ RingFairness

\* The ring that loses datagrams, with its watchdog.
NextLossy ==
    \/ NextRing
    \/ Watchdog
    \/ Lose

LossySpec == Init /\ [][NextLossy]_vars /\ RingFairness /\ WatchdogFairness

\* Everything, after one operator has submitted a burst of messages before the
\* first token leaves the generator.
NextBurst ==
    \/ Ring
    \/ \E n \in Node, destination \in Destinations, content \in Payloads :
            /\ last.op = "Start" \/ (last.op = "QueueMessage" /\ last.node = n)
            /\ Enqueue(n, destination, content, MaxBurst)
    \/ \E n \in Node : TokenCommand(n)
    \/ Watchdog
    \/ Lose

BurstSpec == Init /\ [][NextBurst]_vars

\* The fault-free ring whose messages may be corrupted once more than in the
\* other specifications, so that a message can be refused twice.
NextRetry ==
    \/ \E n \in Node : RunGenerateInitialToken(n)
    \/ \E n \in Node : Receive(n)
    \/ \E n \in Node : TimerFiresUpTo(n, MaxRetries + 1)
    \/ \E n \in Node, destination \in Destinations, content \in Payloads :
            Enqueue(n, destination, content, MaxEnqueue)

RetrySpec == Init /\ [][NextRetry]_vars

\* Only the operator of machine n has submitted messages so far.
OnlyOperator(n) ==
    \A k \in Node \ {n} : machines[k].queue = <<>> /\ machines[k].status.MessagesSent = 0

\* The fault-free ring with one operator, who submits up to MaxBurst messages
\* while the ring runs.
NextFifo ==
    \/ Ring
    \/ \E n \in Node, destination \in Destinations, content \in Payloads :
            /\ OnlyOperator(n)
            /\ Enqueue(n, destination, content, MaxBurst)

FifoSpec == Init /\ [][NextFifo]_vars

\* The fault-free ring with one operator, who submits up to MaxFill broadcast
\* messages while the ring runs: more than the queue holds.
NextFill ==
    \/ Ring
    \/ \E n \in Node, content \in Payloads :
            /\ OnlyOperator(n)
            /\ Enqueue(n, Broadcast, content, MaxFill)

FillSpec == Init /\ [][NextFill]_vars

\* The machines with their receive loops step by step (reading a datagram,
\* handling it, arming the hold timer), stopped by their operators at any
\* moment, and the watchdog; messages are submitted before the first token
\* leaves the generator.
NextStop ==
    \/ \E n \in Node : RunGenerateInitialToken(n)
    \/ \E n \in Node : ReadFromUDP(n)
    \/ \E n \in Node : HandleData(n)
    \/ \E n \in Node : SetTokenTimeout(n)
    \/ \E n \in Node : TimerFires(n)
    \/ \E n \in Node, destination \in Destinations, content \in Payloads :
            /\ last.op = "Start"
            /\ Enqueue(n, destination, content, MaxEnqueue)
    \/ \E n \in Node : Stop(n)
    \/ Watchdog

StopSpec == Init /\ [][NextStop]_vars

\* The probabilities of an injected error the machines are started with, in
\* hundredths: never, the 0.1 of NewMachine, always.
ErrorProbabilities == {0, 10, 100}

\* The fault-free ring under every probability of an injected error.
InjectSpec == (\E p \in ErrorProbabilities : Started(p)) /\ [][NextRing]_vars

\* The fault-free ring under fairness, its messages for any destination, the
\* sender's own name included.
FairRingSpec == Init /\ [][NextRing]_vars /\ RingFairness

(***************************************************************************)
(* The status command                                                      *)
(***************************************************************************)

\* The operator of machine n types the status command: GetStatus, under the
\* read lock, which no handler of the machine holds between two steps.
StatusCommand(n) ==
    /\ loop[n].pc = "read"
    /\ last' = [op |-> "GetStatus", node |-> n, data |-> NoData, out |-> <<>>, err |-> FALSE,
                status |-> GetStatus(machines[n])]
    /\ last' # last
    /\ UNCHANGED <<machines, net, clock, goroutines, watchdog, faults, loop>>

\* The fault-free ring, its operators reading the status at any moment.
NextStatus ==
    \/ NextRing
    \/ \E n \in Node : StatusCommand(n)

StatusSpec == Init /\ [][NextStatus]_vars

(***************************************************************************)
(* Datagrams from outside the ring                                         *)
(***************************************************************************)

\* A control value no machine of the ring writes.
UnknownControl == "XYZ"

\* Datagrams that are neither the token nor a data frame: empty, the token
\* literal with a trailing character, a bare packet type, frames with too few
\* fields, a frame after white space, plain text.
Malformed ==
    {"", "1000x", "2000", "2000;Alice:Bob", "2000;Alice:Bob:ACK:7", " 2000;Alice:Bob:ACK:7:hi", "hi"}

\* What a sender outside the ring may put on the socket of machine n (any host
\* can write to a UDP port): a malformed datagram, the token between white
\* space, or a unicast frame that names n as its origin and carries a control
\* value of its own.
ForeignDatagrams(n) ==
    Malformed \cup {" 1000\n"} \cup
    {FormatRaw(Config(n).MachineName, d, UnknownControl, CreateDataPacket(Config(n).MachineName, d, p).CRC, p) :
        d \in Destinations \ {Broadcast}, p \in Payloads}

\* The receive loop of machine n reads one of `datagrams`, which a sender
\* outside the ring put on its socket (ReadFromUDP takes it from any sender),
\* and handles it.
ForeignFrom(n, datagrams) ==
    /\ FaultCount < MaxFaults
    /\ faults' = [faults EXCEPT !.foreign = @ + 1]
    /\ loop[n].pc = "read"
    /\ machines[n].running
    /\ \E data \in datagrams :
        \E r \in {handleReceivedData(n, machines[n], data)} :
            /\ machines' = [machines EXCEPT ![n] = r.m]
            /\ net' = sendOn(n, r.m, net, r.out)
            /\ last' = Op("handleReceivedData", n, data, r.out, FALSE)
    /\ UNCHANGED <<clock, goroutines, watchdog, loop>>

Foreign(n) == ForeignFrom(n, ForeignDatagrams(n))

\* The fault-free ring, with datagrams from outside it.
NextForeign ==
    \/ NextRing
    \/ \E n \in Node : Foreign(n)

ForeignSpec == Init /\ [][NextForeign]_vars

\* The fault-free ring, with malformed datagrams from outside it; messages are
\* submitted before the first token leaves the generator.
NextMalformed ==
    \/ Ring
    \/ \E n \in Node, destination \in Destinations, content \in Payloads :
            /\ last.op = "Start"
            /\ Enqueue(n, destination, content, MaxEnqueue)
    \/ \E n \in Node : ForeignFrom(n, Malformed)

MalformedSpec == Init /\ [][NextMalformed]_vars

(***************************************************************************)
(* The frame codec on its own: pkg/message and pkg/crc applied to drawn    *)
(* inputs.  `last` holds the call made and what it yielded.                *)
(***************************************************************************)

\* The callback of the hold timer of machine n starts: processToken takes the
\* machine's lock, returns if the machine holds no token, and otherwise asks
\* the queue, under the queue's own lock, whether it is empty.  tokenTimeout
\* records the answer while the callback runs.
ProcessTokenIsEmpty(n) ==
    /\ machines[n].tokenTimeout = "armed"
    /\ IF ~machines[n].hasToken
       THEN /\ machines' = [machines EXCEPT ![n].tokenTimeout = "fired"]
            /\ last' = Op("processToken", n, NoData, <<>>, FALSE)
       ELSE /\ machines' = [machines EXCEPT ![n].tokenTimeout =
                               IF IsEmpty(machines[n].queue) THEN "isEmpty" ELSE "notEmpty"]
            /\ last' = last
    /\ UNCHANGED <<net, clock, goroutines, watchdog, faults, loop>>

\* The callback goes on: on an empty queue it passes the token, whatever has
\* been queued since; otherwise it peeks the head and transmits it.
ProcessTokenRest(n) ==
    /\ machines[n].tokenTimeout \in {"isEmpty", "notEmpty"}
    /\ \E roll \in RandFloat :
        /\ IF roll < machines[n].errorProbability /\ machines[n].tokenTimeout = "notEmpty"
           THEN Head(machines[n].queue).Retries < MaxRetries
           ELSE TRUE
        /\ \E r \in {IF machines[n].tokenTimeout = "isEmpty"
                     THEN passToken([machines[n] EXCEPT !.tokenTimeout = "fired"])
                     ELSE processToken(n, [machines[n] EXCEPT !.tokenTimeout = "fired"], roll,
                                       RandUint32)} :
               /\ machines' = [machines EXCEPT ![n] = r.m]
               /\ net' = sendOn(n, r.m, net, r.out)
               /\ last' = Op("processToken", n, NoData, r.out, FALSE)
    /\ UNCHANGED <<clock, goroutines, watchdog, faults, loop>>

\* The receive loop of machine n handles a datagram while no callback of the
\* hold timer holds the machine's lock.
ReceiveUnlocked(n) ==
    /\ machines[n].tokenTimeout \notin {"isEmpty", "notEmpty"}
    /\ Receive(n)

\* The fault-free ring with the callback of the hold timer in its two steps,
\* between which the console may queue a message.
NextRace ==
    \/ \E n \in Node : RunGenerateInitialToken(n)
    \/ \E n \in Node : ReceiveUnlocked(n)
    \/ \E n \in Node : ProcessTokenIsEmpty(n)
    \/ \E n \in Node : ProcessTokenRest(n)
    \/ \E n \in Node, destination \in Destinations, content \in Payloads :
            Enqueue(n, destination, content, MaxEnqueue)

RaceSpec == Init /\ [][NextRace]_vars

\* The names and payloads the codec is given (no name holds a ':'; a payload
\* may), and the controls of a frame.
CodecNames == {"Alice", "Bob", Broadcast, ""}
CodecPayloads == {"", "hi", "a:b", ":"}
Controls == {ControlMachineNotExists, ControlACK, ControlNAK}

\* No frame: a call that yields none.
NoFrame == [Type |-> "nil"]

\* The checksum fields a received buffer may carry for the checksum v, each
\* with its kind: "right" denotes v in decimal, "other" another 32-bit number,
\* "malformed" no decimal unsigned 32-bit number at all.
ChecksumFields(v) ==
    {[text |-> FormatUint(v), kind |-> "right"],
     [text |-> "0" \o FormatUint(v), kind |-> "right"],
     [text |-> FormatUint(Xor32(v, <<0, 1>>)), kind |-> "other"],
     [text |-> FormatUint(RandUint32[1]), kind |-> "other"],
     [text |-> "12345", kind |-> "other"],
     [text |-> "99999", kind |-> "other"],
     [text |-> "4294967295", kind |-> "other"],
     [text |-> "4294967296", kind |-> "malformed"],
     [text |-> "99999999999", kind |-> "malformed"],
     [text |-> "invalid", kind |-> "malformed"],
     [text |-> "12a", kind |-> "malformed"],
     [text |-> "-1", kind |-> "malformed"],
     [text |-> "+1", kind |-> "malformed"],
     [text |-> " 1", kind |-> "malformed"],
     [text |-> "", kind |-> "malformed"]}

\* The buffers the codec is given to decode.  Those of five fields carry each
\* kind of checksum field; the others lack the prefix "2000;" ("noprefix") or
\* have fewer than five fields ("short").
CodecBuffers ==
    UNION {{[data |-> FormatRaw(o, "Bob", ControlMachineNotExists, c.text, p), kind |-> c.kind] :
               c \in ChecksumFields(ChecksumIEEE(CreateDataForCRC(o, "Bob", p)))} :
           o \in {"Alice", ""}, p \in {"hi", "a:b"}}
    \cup {[data |-> d, kind |-> "noprefix"] :
             d \in {"", "1000", "2000", "2000:Alice:Bob:ACK:7:hi", "3000;Alice:Bob:ACK:7:hi",
                    " 2000;Alice:Bob:ACK:7:hi", "Alice:Bob:ACK:7:hi"}}
    \cup {[data |-> d, kind |-> "short"] :
             d \in {"2000;", "2000;Alice", "2000;Alice:Bob", "2000;Alice:Bob:ACK",
                    "2000;Alice:Bob:ACK:7", "2000;:::"}}

\* A call of the codec: the call before it, its operand, its other arguments,
\* the frame it yields (NoFrame if none) and its result (the error of
\* ParseDataPacket, the value of VerifyIntegrity and of IntroduceError).
CodecOp(op, prev, in, arg, dm, res) ==
    [op |-> op, prev |-> prev, in |-> in, arg |-> arg, dm |-> dm, res |-> res]

\* The last call yielded a frame.
HasFrame ==
    /\ last.op \in {"CreateDataPacket", "ParseDataPacket", "SetControl", "IntroduceError"}
    /\ last.dm # NoFrame

\* CreateDataPacket is the first call, as processToken calls it for a queued
\* message.
CodecCreateDataPacket ==
    /\ last.op = "Start"
    /\ \E o \in CodecNames, d \in CodecNames, p \in CodecPayloads :
           last' = CodecOp("CreateDataPacket", last.op, <<o, d, p>>, "", CreateDataPacket(o, d, p),
                           FALSE)
    /\ UNCHANGED <<machines, net, clock, goroutines, watchdog, faults, loop>>

\* ParseDataPacket is the first call, on a buffer that arrived, as
\* handleReceivedData calls it.
CodecReceive ==
    /\ last.op = "Start"
    /\ \E b \in CodecBuffers :
           \E parsed \in {parseDataPacket(b.data)} :
               last' = CodecOp("ParseDataPacket", "ReadFromUDP", b.data, b.kind,
                               IF parsed.err THEN NoFrame ELSE parsed.msg, parsed.err)
    /\ UNCHANGED <<machines, net, clock, goroutines, watchdog, faults, loop>>

\* ParseDataPacket is called on the encoded form of the frame at hand, as the
\* next machine does with what sendPacket sent.
CodecDecode ==
    /\ HasFrame
    /\ last.op # "ParseDataPacket"
    /\ \E parsed \in {parseDataPacket(last.dm.RawData)} :
           last' = CodecOp("ParseDataPacket", last.op, last.dm, "sent",
                           IF parsed.err THEN NoFrame ELSE parsed.msg, parsed.err)
    /\ UNCHANGED <<machines, net, clock, goroutines, watchdog, faults, loop>>

\* SetControl is called on the frame at hand.
CodecSetControl ==
    /\ HasFrame
    /\ \E control \in Controls :
           last' = CodecOp("SetControl", last.op, last.dm, control, SetControl(last.dm, control),
                           FALSE)
    /\ UNCHANGED <<machines, net, clock, goroutines, watchdog, faults, loop>>

\* IntroduceError is called on the frame CreateDataPacket has just built, as
\* processToken calls it.  rand.Uint32() may first yield the very checksum of
\* the frame.
CodecIntroduceError ==
    /\ last.op = "CreateDataPacket"
    /\ \E probability \in ErrorProbabilities, roll \in RandFloat,
          draws \in {RandUint32, <<ParseUint(last.dm.CRC).val>> \o RandUint32} :
           \E r \in {IntroduceError(last.dm, probability, roll, draws)} :
               last' = CodecOp("IntroduceError", last.op, last.dm,
                               [probability |-> probability, roll |-> roll], r.dm, r.introduced)
    /\ UNCHANGED <<machines, net, clock, goroutines, watchdog, faults, loop>>

\* VerifyIntegrity is called on the frame at hand.
CodecVerifyIntegrity ==
    /\ HasFrame
    /\ last' = CodecOp("VerifyIntegrity", last.op, last.dm, last.arg, last.dm,
                       VerifyIntegrity(last.dm))
    /\ UNCHANGED <<machines, net, clock, goroutines, watchdog, faults, loop>>

NextCodec ==
    \/ CodecCreateDataPacket
    \/ CodecReceive
    \/ CodecDecode
    \/ CodecSetControl
    \/ CodecIntroduceError
    \/ CodecVerifyIntegrity

CodecSpec == Init /\ [][NextCodec]_vars

(***************************************************************************)
(* What is observed of a state and of a step                               *)
(***************************************************************************)

NameOf(n) == Config(n).MachineName

\* The nodes whose hasToken is true.
Holders == {n \in Node : machines[n].hasToken}

\* The number of token datagrams in transit.
TokensInTransit ==
    BagCardinality([d \in {e \in BagToSet(net) : IsTokenPacket(e.data)} |-> net[d]])

\* The data frame a datagram carries, if it carries one.
IsFrame(data) == ~IsTokenPacket(data) /\ ~ParseDataPacket(data).err
FrameOf(data) == ParseDataPacket(data).msg

\* The number of data frames in transit whose origin is node n.
FramesOf(n) ==
    BagCardinality([d \in {e \in BagToSet(net) :
                              IsFrame(e.data) /\ FrameOf(e.data).Origin = NameOf(n)} |-> net[d]])

\* This step is machine n handling a datagram it received.
Received(n) == last'.op = "handleReceivedData" /\ last'.node = n /\ net' # net

\* This step is machine n sending a token downstream.
EmitsToken(n) ==
    /\ last'.node = n
    /\ net' # net
    /\ \E k \in 1..Len(last'.out) : IsTokenPacket(last'.out[k])

\* This step removes the head of machine n's queue.
Removed(n) ==
    /\ machines[n].queue # <<>>
    /\ machines'[n].queue = Tail(machines[n].queue)

(***************************************************************************)
(* The claims                                                              *)
(***************************************************************************)

\* C1: in every reachable state, a node that awaits the return of its frame
\* has at most one data frame of its origin on the ring.
C1_SingleFrameInFlight ==
    \A n \in Node : machines[n].waitingForData => FramesOf(n) <= 1

\* C2: the head of a queue is removed only by the step that handles the return
\* of a frame of this origin carrying that message (same destination, same
\* payload) while the node awaits it; so never before it was transmitted.
C2_RemovedOnlyOnReturn ==
    [][\A n \in Node :
          Removed(n) =>
             /\ Received(n)
             /\ IsFrame(last'.data)
             /\ FrameOf(last'.data).Origin = NameOf(n)
             /\ FrameOf(last'.data).Destination = Head(machines[n].queue).Destination
             /\ FrameOf(last'.data).Message = Head(machines[n].queue).Content
             /\ machines[n].waitingForData]_vars

\* C3: a data frame of this node's origin that arrives while the node awaits
\* nothing is discarded, unicast or broadcast: queue, hasToken and
\* waitingForData stay as they were and nothing is sent.
C3_UnexpectedReturnDiscarded ==
    [][\A n \in Node :
          (/\ Received(n)
           /\ IsFrame(last'.data)
           /\ FrameOf(last'.data).Origin = NameOf(n)
           /\ ~machines[n].waitingForData)
          => /\ machines'[n].queue = machines[n].queue
             /\ machines'[n].hasToken = machines[n].hasToken
             /\ machines'[n].waitingForData = machines[n].waitingForData
             /\ last'.out = <<>>]_vars

\* C4: in the fault-free ring, once the generator has emitted the initial
\* token, the holders of the token and the tokens in transit number exactly one.
C4_TokenUniqueness ==
    (goroutines[Generator] = 0) => (Cardinality(Holders) + TokensInTransit = 1)

\* C4, its case: a node holds the token while its frame travels the ring.
C4_Witness ==
    \E n \in Node : /\ machines[n].waitingForData
                    /\ FramesOf(n) = 1
                    /\ Holders = {n}
                    /\ TokensInTransit = 0

\* The token datagram was just lost, no node holds the token and no other is on
\* its way.
TokenLost ==
    /\ last.op = "lost"
    /\ IsTokenPacket(last.data)
    /\ Holders = {}
    /\ TokensInTransit = 0
    /\ \A n \in Node : goroutines[n] = 0

\* Machine n has just received a token.
TokenArrived(n) ==
    last.op = "handleReceivedData" /\ last.node = n /\ IsTokenPacket(last.data)

\* The watchdog has just emitted a fresh token.
Regenerated == last.op = "tokenWatchdog"

\* C5: once the token is lost in transit while no node holds it, the watchdog
\* of the generator eventually emits a fresh token and every node receives a
\* token again.
C5_TokenLossRecovery ==
    /\ TokenLost ~> Regenerated
    /\ \A n \in Node : TokenLost ~> TokenArrived(n)

\* The data frame machine n awaits was just lost, and neither a token nor a
\* frame travels the ring.
FrameLost(n) ==
    /\ last.op = "lost"
    /\ IsFrame(last.data)
    /\ FrameOf(last.data).Origin = NameOf(n)
    /\ machines[n].waitingForData
    /\ net = EmptyBag

\* C6: once the frame a node has in flight is lost, so that nothing travels the
\* ring, the watchdog eventually regenerates the token, whichever node awaits,
\* the generator included.
C6_StallRecovery ==
    \A n \in Node : FrameLost(n) ~> Regenerated

\* C7: in the step in which the watchdog emits its token, hasToken of the
\* generator is false.
C7_WatchdogNeverDuplicates ==
    [][(watchdog.pc = "generate" /\ watchdog'.pc = "loop")
          => ~machines[Generator].hasToken]_vars

\* C8: a machine that is not the generator sends a token only when it holds
\* one, that is, never one it did not receive.
C8_OnlyGeneratorCreates ==
    [][\A n \in Node \ {Generator} : EmitsToken(n) => machines[n].hasToken]_vars

\* C9: a token command typed at a machine whose hasToken is true fails, starts
\* no generation, sends nothing, and leaves every machine as it was.
C9_TokenCommandRefused ==
    [][\A n \in Node :
          (faults'.command # faults.command /\ last'.node = n /\ machines[n].hasToken)
          => /\ last'.op = "GenerateToken"
             /\ last'.err
             /\ goroutines' = goroutines
             /\ net' = net
             /\ machines' = machines]_vars

\* C9, its case: the command was just refused at a machine that holds the token.
C9_Witness ==
    /\ last.op = "GenerateToken"
    /\ last.err
    /\ machines[last.node].hasToken
    /\ machines[last.node].status.TokensProcessed > 0

\* Machine n has just dropped its last message and passed the token on.
Delivered(n) ==
    /\ machines[n].queue = <<>>
    /\ ~machines[n].hasToken
    /\ last.op = "handleReceivedData"
    /\ last.node = n
    /\ IsFrame(last.data)
    /\ last.out = <<CreateTokenPacket>>

\* C10: without loss and without injected errors, every message for another
\* machine, an unknown name or all leaves the queue of its origin, which then
\* passes the token on; in the end all queues are empty for good.
C10_Delivery ==
    /\ \A n \in Node : (machines[n].queue # <<>>) ~> Delivered(n)
    /\ <>[](\A n \in Node : machines[n].queue = <<>>)

\* C10, its case: a machine has sent its message and dropped it on its return.
C10_Witness ==
    \E n \in Node : Delivered(n) /\ machines[n].status.MessagesSent > 0 /\ clock = MaxEnqueue

\* C11: a node that awaits the return of its frame eventually leaves the wait
\* and gives the token up, whatever the destination of the frame, its own name
\* included.
C11_SelfAddressedReturns ==
    \A n \in Node :
        machines[n].waitingForData
            ~> (~machines[n].waitingForData /\ ~machines[n].hasToken)

\* This step is machine n, awaiting, receiving the unicast frame of its head
\* message with control NAK.
NakReturns(n) ==
    /\ Received(n)
    /\ IsFrame(last'.data)
    /\ FrameOf(last'.data).Origin = NameOf(n)
    /\ FrameOf(last'.data).Destination # Broadcast
    /\ FrameOf(last'.data).Control = ControlNAK
    /\ machines[n].waitingForData
    /\ machines[n].queue # <<>>
    /\ FrameOf(last'.data).Destination = Head(machines[n].queue).Destination
    /\ FrameOf(last'.data).Message = Head(machines[n].queue).Content

\* Machine n has just transmitted its head message, which was refused before.
Retransmitted(n) ==
    /\ last.op = "processToken"
    /\ last.node = n
    /\ machines[n].queue # <<>>
    /\ Head(machines[n].queue).Retries > 0
    /\ last.out # <<>>
    /\ IsFrame(last.out[1])
    /\ FrameOf(last.out[1]).Origin = NameOf(n)
    /\ FrameOf(last.out[1]).Destination = Head(machines[n].queue).Destination
    /\ FrameOf(last.out[1]).Message = Head(machines[n].queue).Content

\* C12: when the awaited unicast frame returns with control NAK, the head stays
\* at the head of the queue with one retry more and the token is passed on; a
\* refused head that is not in flight is eventually transmitted again, with the
\* same destination and payload.
C12_NakRetransmission ==
    /\ [][\A n \in Node :
             NakReturns(n) =>
                /\ machines'[n].queue =
                       [machines[n].queue EXCEPT ![1].Retries = @ + 1]
                /\ last'.out = <<CreateTokenPacket>>
                /\ ~machines'[n].hasToken
                /\ ~machines'[n].waitingForData]_vars
    /\ \A n \in Node :
          (/\ machines[n].queue # <<>>
           /\ Head(machines[n].queue).Retries > 0
           /\ ~machines[n].waitingForData) ~> Retransmitted(n)

\* This step is machine n transmitting a data frame of its own.
Transmits(n) ==
    /\ last'.op = "processToken"
    /\ last'.node = n
    /\ last'.out # <<>>
    /\ IsFrame(last'.out[1])

\* C13: a message that was refused (NAK) is transmitted at most once more: no
\* frame is transmitted for a head message already refused more than once.
C13_RetransmittedOnce ==
    [][\A n \in Node :
          Transmits(n) => Head(machines[n].queue).Retries <= 1]_vars

\* The messages of queue q are in the order of their enqueueing.
InEnqueueOrder(q) ==
    \A i, j \in 1..Len(q) : i < j => q[i].Timestamp < q[j].Timestamp

\* C14: every queue holds its messages in the order of their enqueueing; a step
\* changes it only by appending a newer message, by removing the head or by
\* counting a retry of the head; and a frame a machine transmits carries the
\* destination and payload of the head, the oldest message still queued.
C14_PerOriginFifo ==
    [][\A n \in Node :
          LET q == machines[n].queue
              r == machines'[n].queue
          IN  /\ InEnqueueOrder(r)
              /\ \/ r = q
                 \/ Len(r) = Len(q) + 1 /\ SubSeq(r, 1, Len(q)) = q
                 \/ q # <<>> /\ r = Tail(q)
                 \/ q # <<>> /\ r = [q EXCEPT ![1].Retries = @ + 1]
              /\ Transmits(n) =>
                    /\ q # <<>>
                    /\ r = q
                    /\ FrameOf(last'.out[1]).Origin = NameOf(n)
                    /\ FrameOf(last'.out[1]).Destination = q[1].Destination
                    /\ FrameOf(last'.out[1]).Message = q[1].Content]_vars

\* C14, its case: a machine with two messages queued, for different
\* destinations, has just transmitted the older one.
C14_Witness ==
    \E n \in Node :
        /\ last.op = "processToken"
        /\ last.node = n
        /\ last.out # <<>>
        /\ IsFrame(last.out[1])
        /\ Len(machines[n].queue) > 1
        /\ machines[n].queue[1].Destination # machines[n].queue[2].Destination
        /\ FrameOf(last.out[1]).Destination = machines[n].queue[1].Destination

\* This step is the operator of machine n submitting a message.
Submits(n) == last'.op = "QueueMessage" /\ last'.node = n /\ clock' # clock

\* C15: no queue ever holds more than 10 messages; a message submitted to a
\* queue of 10 is refused with the queue-full error and the queue stays as it
\* was, and one submitted to a shorter queue is appended.
C15_QueueBound ==
    [][\A n \in Node :
          /\ Len(machines'[n].queue) <= 10
          /\ (Submits(n) /\ Len(machines[n].queue) = 10) =>
                (last'.err /\ machines'[n].queue = machines[n].queue)
          /\ (Submits(n) /\ Len(machines[n].queue) < 10) =>
                (/\ ~last'.err
                 /\ Len(machines'[n].queue) = Len(machines[n].queue) + 1
                 /\ SubSeq(machines'[n].queue, 1, Len(machines[n].queue))
                        = machines[n].queue)]_vars

\* C15, its case: a message was just refused by a full queue whose machine has
\* transmitted, and so removed, messages before.
C15_Witness ==
    /\ last.op = "QueueMessage"
    /\ last.err
    /\ Len(machines[last.node].queue) = 10
    /\ machines[last.node].queue[1].Timestamp > 1

\* C16: a machine that awaits the return of its frame has the frame at hand
\* (currentDataMsg is set) and the head of its queue has the destination and
\* payload of that frame.
C16_AwaitingMatchesHead ==
    \A n \in Node :
        machines[n].waitingForData =>
            /\ machines[n].currentDataMsg.Type # "nil"
            /\ machines[n].queue # <<>>
            /\ Head(machines[n].queue).Destination = machines[n].currentDataMsg.Destination
            /\ Head(machines[n].queue).Content = machines[n].currentDataMsg.Message

\* C16, its case: the operator has just submitted a message to a machine that
\* awaits the return of its frame.
C16_Witness ==
    /\ last.op = "QueueMessage"
    /\ ~last.err
    /\ machines[last.node].waitingForData
    /\ Len(machines[last.node].queue) > 1
    /\ FramesOf(last.node) = 1

\* C17: the token-hold timer of a machine is armed exactly when the machine
\* holds the token and does not await the return of a frame.
C17_TimerArmedIffHolding ==
    \A n \in Node :
        (machines[n].tokenTimeout = "armed")
            <=> (machines[n].hasToken /\ ~machines[n].waitingForData)

\* This step is machine n, awaiting, receiving the frame it has in flight.
ReturnOfAwaited(n) ==
    /\ Received(n)
    /\ IsFrame(last'.data)
    /\ FrameOf(last'.data).Origin = NameOf(n)
    /\ machines[n].waitingForData
    /\ machines[n].currentDataMsg.Type # "nil"
    /\ FrameOf(last'.data).Destination = machines[n].currentDataMsg.Destination
    /\ FrameOf(last'.data).Message = machines[n].currentDataMsg.Message

\* C18: a machine that sends a token downstream does not await the return of a
\* frame afterwards, and if it awaited one before, the step is the handling of
\* that frame's return.
C18_TokenReleasedOnReturn ==
    [][\A n \in Node :
          EmitsToken(n) =>
             /\ ~machines'[n].waitingForData
             /\ machines[n].waitingForData => ReturnOfAwaited(n)]_vars

\* The engine state of a machine: all of it but the queue, which the console
\* fills under the queue's own lock.
Engine(mach) == [mach EXCEPT !.queue = <<>>]

\* C19: the handling of an inbound frame is atomic: while the receive loop of
\* a machine is between the writes of one handling (the token is taken, the
\* hold timer not yet armed), no other activity (Stop, a timer's callback, the
\* watchdog) changes the engine state of that machine.
C19_TransitionsAtomic ==
    [][\A n \in Node :
          (loop[n].pc = "timer" /\ loop'[n].pc = "timer")
              => Engine(machines'[n]) = Engine(machines[n])]_vars

\* C20: once Stop has returned, the machine does not run, its hold timer is
\* not armed, and no step of its receive loop, of its hold timer's callback or
\* of its watchdog changes its engine state or sends a datagram from it.
C20_QuietAfterStop ==
    [][\A n \in Node :
          (~machines[n].running /\ goroutines' = goroutines) =>
             /\ ~machines'[n].running
             /\ machines'[n].tokenTimeout # "armed"
             /\ Engine(machines'[n]) = Engine(machines[n])
             /\ \A d \in BagToSet(net') :
                    d.to = Config(n).NextMachineAddr => net'[d] <= (IF d \in DOMAIN net THEN net[d] ELSE 0)]_vars

\* The names of the machines on the ring.
RingNames == {NameOf(n) : n \in Node}

\* The frame is addressed to a name that no machine on the ring has.
ToUnknown(f) == f.Destination \notin RingNames \cup {Broadcast}

\* C21: a frame addressed to a name no machine has always carries the control
\* maquinanaoexiste; a machine other than its origin forwards it as it came and
\* stays as it was; its origin, awaiting, removes the head of its queue and
\* passes the token.  A machine transmits its frames with the control
\* maquinanaoexiste, and only the machine a frame names as its destination
\* sends it on with another control than it came with, ACK or NAK.
C21_UnknownDestination ==
    [][\A n \in Node :
          /\ Transmits(n) => FrameOf(last'.out[1]).Control = ControlMachineNotExists
          /\ (Received(n) /\ IsFrame(last'.data)) =>
                LET f == FrameOf(last'.data)
                IN  /\ ToUnknown(f) => f.Control = ControlMachineNotExists
                    /\ (ToUnknown(f) /\ f.Origin # NameOf(n)) =>
                          /\ last'.out = <<last'.data>>
                          /\ machines'[n] = machines[n]
                    /\ (ToUnknown(f) /\ f.Origin = NameOf(n) /\ machines[n].waitingForData) =>
                          /\ Removed(n)
                          /\ last'.out = <<CreateTokenPacket>>
                          /\ ~machines'[n].hasToken
                    /\ \A k \in 1..Len(last'.out) :
                          (IsFrame(last'.out[k])
                              /\ FrameOf(last'.out[k]).Control # f.Control) =>
                             /\ f.Destination = NameOf(n)
                             /\ FrameOf(last'.out[k]).Control \in {ControlACK, ControlNAK}]_vars

\* C21, its case: the frame a machine addressed to a name no machine has came
\* back to it, and the machine removed its only message and passed the token.
C21_Witness ==
    /\ last.op = "handleReceivedData"
    /\ IsFrame(last.data)
    /\ ToUnknown(FrameOf(last.data))
    /\ FrameOf(last.data).Origin = NameOf(last.node)
    /\ FrameOf(last.data).Control = ControlMachineNotExists
    /\ last.out = <<CreateTokenPacket>>
    /\ machines[last.node].queue = <<>>
    /\ ~machines[last.node].waitingForData

\* C22: whatever the probability of an injected error, a frame a machine
\* transmits to TODOS is the frame CreateDataPacket built, whose checksum is
\* that of origin, destination and payload (VerifyIntegrity is true); a frame
\* to any other destination is what IntroduceError made of the built frame:
\* with probability 1 its checksum is wrong, with probability 0 it is right.
C22_BroadcastNotInjected ==
    [][\A n \in Node :
          Transmits(n) =>
             LET queuedMsg == Head(machines[n].queue)
                 created == CreateDataPacket(NameOf(n), queuedMsg.Destination, queuedMsg.Content)
                 sent == FrameOf(last'.out[1])
             IN  IF queuedMsg.Destination = Broadcast
                 THEN /\ last'.out[1] = created.RawData
                      /\ sent.Destination = Broadcast
                      /\ VerifyIntegrity(sent)
                 ELSE /\ \E roll \in RandFloat :
                            last'.out[1] = IntroduceError(created, machines[n].errorProbability,
                                                          roll, RandUint32).dm.RawData
                      /\ machines[n].errorProbability = 100 => ~VerifyIntegrity(sent)
                      /\ machines[n].errorProbability = 0 => VerifyIntegrity(sent)]_vars

\* C22, its case: a machine that injects an error into every frame has just
\* transmitted a broadcast, and its checksum is right.
C22_Witness ==
    /\ last.op = "processToken"
    /\ last.out # <<>>
    /\ IsFrame(last.out[1])
    /\ FrameOf(last.out[1]).Destination = Broadcast
    /\ VerifyIntegrity(FrameOf(last.out[1]))
    /\ machines[last.node].errorProbability = 100

\* C23: VerifyIntegrity is true of a frame CreateDataPacket has just built, for
\* every origin, destination and payload; of a decoded frame it is true when
\* the checksum field denotes the checksum of origin:destination:payload and
\* false when it denotes another number or is no decimal unsigned 32-bit
\* number.
C23_ChecksumRoundTrip ==
    last.op = "VerifyIntegrity" =>
        /\ last.prev = "CreateDataPacket" => last.res
        /\ (last.prev = "ParseDataPacket" /\ last.arg = "right") => last.res
        /\ (last.prev = "ParseDataPacket" /\ last.arg \in {"other", "malformed"}) => ~last.res
        /\ last.res =>
              last.dm.CRC \in {z \o CalculateCRC32String(
                                       CreateDataForCRC(last.dm.Origin, last.dm.Destination,
                                                        last.dm.Message)) : z \in {"", "0"}}

\* C23, its case: VerifyIntegrity was false of a decoded frame whose checksum
\* field is a decimal number of more than 32 bits.
C23_Witness ==
    /\ last.op = "VerifyIntegrity"
    /\ last.prev = "ParseDataPacket"
    /\ last.arg = "malformed"
    /\ last.dm.CRC = "4294967296"
    /\ last.dm.Message = "a:b"
    /\ ~last.res

\* C24: SetControl changes the control and the encoded form of a frame and
\* nothing else: origin, destination, checksum and payload stay, the encoded
\* form decodes to the frame with the new control, VerifyIntegrity gives what
\* it gave before, and SetControl after a SetControl yields what it alone
\* yields of the first frame.
C24_ControlRewrite ==
    [][last'.op = "SetControl" =>
          LET before == last'.in
              after == last'.dm
              control == last'.arg
          IN  /\ before = last.dm
              /\ after.Origin = before.Origin
              /\ after.Destination = before.Destination
              /\ after.CRC = before.CRC
              /\ after.Message = before.Message
              /\ after.Control = control
              /\ after = [before EXCEPT !.Control = control, !.RawData = after.RawData]
              /\ after.RawData = FormatRaw(before.Origin, before.Destination, control,
                                           before.CRC, before.Message)
              /\ ~parseDataPacket(after.RawData).err
              /\ parseDataPacket(after.RawData).msg = after
              /\ VerifyIntegrity(after) = VerifyIntegrity(before)
              /\ last.op = "SetControl" => after = SetControl(last.in, control)]_vars

\* C24, its case: the control of a frame whose payload holds a ':' was set to
\* ACK and then to NAK.
C24_Witness ==
    /\ last.op = "SetControl"
    /\ last.prev = "SetControl"
    /\ last.in.Control = ControlACK
    /\ last.arg = ControlNAK
    /\ last.dm.Control = ControlNAK
    /\ last.dm.Message = "a:b"

\* C25: IntroduceError with probability 1 reports an error introduced and
\* yields a frame of which VerifyIntegrity is false: its checksum field is the
\* decimal form of another 32-bit number than before, its origin, destination,
\* control and payload are as before, and its encoded form is that of the new
\* fields.  With probability 0 it reports none and the frame is as it was.
\* With any probability it does the one or the other.
C25_ErrorInjection ==
    [][last'.op = "IntroduceError" =>
          LET before == last'.in
              after == last'.dm
              corrupted ==
                  /\ last'.res
                  /\ ~VerifyIntegrity(after)
                  /\ after.CRC # before.CRC
                  /\ ParseUint(after.CRC).ok
                  /\ ParseUint(after.CRC).val # ParseUint(before.CRC).val
                  /\ after = [before EXCEPT !.CRC = after.CRC, !.RawData = after.RawData]
                  /\ after.RawData = FormatRaw(before.Origin, before.Destination, before.Control,
                                               after.CRC, before.Message)
                  /\ parseDataPacket(after.RawData).msg = after
              untouched == ~last'.res /\ after = before
          IN  /\ before = last.dm
              /\ VerifyIntegrity(before)
              /\ last'.arg.probability = 100 => corrupted
              /\ last'.arg.probability = 0 => untouched
              /\ IF last'.arg.roll < last'.arg.probability THEN corrupted ELSE untouched]_vars

\* C25, its case: IntroduceError with probability 1 has replaced the checksum
\* 3369413016 of the frame built of Alice, Bob and a:b by 7.
C25_Witness ==
    /\ last.op = "IntroduceError"
    /\ last.arg.probability = 100
    /\ last.res
    /\ last.in.Message = "a:b"
    /\ last.in.CRC = "3369413016"
    /\ last.dm.CRC = "7"

\* C26: ParseDataPacket of the encoded form of a frame yields no error and a
\* frame of the same origin, destination, control, checksum and payload,
\* whatever the payload (empty, or holding ':'); and it yields an error for a
\* buffer that does not begin with "2000;" or has fewer than five fields
\* between ':'.
C26_EncodeDecode ==
    last.op = "ParseDataPacket" =>
        /\ last.arg = "sent" =>
              /\ ~last.res
              /\ last.dm.Origin = last.in.Origin
              /\ last.dm.Destination = last.in.Destination
              /\ last.dm.Control = last.in.Control
              /\ last.dm.CRC = last.in.CRC
              /\ last.dm.Message = last.in.Message
              /\ last.dm = last.in
        /\ last.arg \in {"noprefix", "short"} => (last.res /\ last.dm = NoFrame)
        /\ last.arg \in {"right", "other", "malformed"} =>
              (~last.res /\ last.dm.RawData = last.in)

\* C26, its case: the frame built of Alice, an empty destination and the
\* payload ":" was decoded from its encoded form.
C26_Witness ==
    /\ last.op = "ParseDataPacket"
    /\ last.arg = "sent"
    /\ last.prev = "CreateDataPacket"
    /\ last.in.Origin = "Alice"
    /\ last.in.Destination = ""
    /\ last.in.Message = ":"
    /\ last.dm.Message = ":"
    /\ last.dm.Control = ControlMachineNotExists
    /\ ~last.res

\* C26, its other case: a buffer of four fields was refused.
C26_WitnessRefused ==
    /\ last.op = "ParseDataPacket"
    /\ last.arg = "short"
    /\ last.in = "2000;Alice:Bob:ACK:7"
    /\ last.res

\* This step is machine n, awaiting the return of a frame, receiving a frame of
\* its own that is no broadcast.
ReturnToOrigin(n) ==
    /\ Received(n)
    /\ IsFrame(last'.data)
    /\ FrameOf(last'.data).Origin = NameOf(n)
    /\ FrameOf(last'.data).Destination # Broadcast
    /\ machines[n].waitingForData

\* C27: a machine that awaits the return of a frame and receives a frame of its
\* own that is no broadcast removes exactly the head of its queue if the
\* control is ACK or maquinanaoexiste, and keeps the queue but for the retries
\* of the head, one more, if it is NAK; in each case it awaits no longer, has
\* no frame in flight, sends exactly one token and nothing else, and holds the
\* token no longer.
C27_ReturnToOrigin ==
    [][\A n \in Node :
          ReturnToOrigin(n) =>
             LET f == FrameOf(last'.data)
                 q == machines[n].queue
             IN  /\ f.Control = ControlACK => (q # <<>> /\ machines'[n].queue = Tail(q))
                 /\ f.Control = ControlNAK =>
                       (q # <<>> /\ machines'[n].queue = [q EXCEPT ![1].Retries = @ + 1])
                 /\ f.Control = ControlMachineNotExists =>
                       (q # <<>> /\ machines'[n].queue = Tail(q))
                 /\ f.Control \in Controls =>
                       /\ ~machines'[n].waitingForData
                       /\ machines'[n].currentDataMsg = NoFrame
                       /\ last'.out = <<CreateTokenPacket>>
                       /\ ~machines'[n].hasToken]_vars

\* This step is machine n, awaiting the return of a frame, receiving a frame of
\* its own that is no broadcast and has another destination or payload than
\* the frame it has in flight.
ReturnOfAnother(n) ==
    /\ ReturnToOrigin(n)
    /\ machines[n].currentDataMsg # NoFrame
    /\ \/ FrameOf(last'.data).Destination # machines[n].currentDataMsg.Destination
       \/ FrameOf(last'.data).Message # machines[n].currentDataMsg.Message

\* C28: a machine that awaits the return of a frame and receives another frame
\* of its own (no broadcast, and not of the destination and payload of the
\* frame in flight) leaves its queue as it was, goes on awaiting and sends no
\* token.
C28_ReturnMatchesInFlight ==
    [][\A n \in Node :
          ReturnOfAnother(n) =>
             /\ machines'[n].queue = machines[n].queue
             /\ machines'[n].waitingForData
             /\ machines'[n].currentDataMsg = machines[n].currentDataMsg
             /\ ~EmitsToken(n)]_vars

\* This step is machine n, awaiting the return of its broadcast, receiving a
\* broadcast frame of its own.
ReturnOfBroadcast(n) ==
    /\ Received(n)
    /\ IsFrame(last'.data)
    /\ FrameOf(last'.data).Origin = NameOf(n)
    /\ FrameOf(last'.data).Destination = Broadcast
    /\ machines[n].waitingForData
    /\ machines[n].currentDataMsg # NoFrame
    /\ machines[n].currentDataMsg.Destination = Broadcast

\* C29: a machine that awaits the return of its broadcast and receives a
\* broadcast frame of its own removes exactly the head of its queue, awaits no
\* longer, has no frame in flight, sends exactly one token and nothing else
\* (the frame is not forwarded), and holds the token no longer.
C29_BroadcastCycleComplete ==
    [][\A n \in Node :
          ReturnOfBroadcast(n) =>
             /\ machines[n].queue # <<>>
             /\ machines'[n].queue = Tail(machines[n].queue)
             /\ ~machines'[n].waitingForData
             /\ machines'[n].currentDataMsg = NoFrame
             /\ last'.out = <<CreateTokenPacket>>
             /\ ~machines'[n].hasToken]_vars

\* C29, its case: the broadcast of a machine has come back to it after the two
\* other machines received it, and the machine has removed its only message
\* and sent the token.
C29_Witness ==
    /\ last.op = "handleReceivedData"
    /\ IsFrame(last.data)
    /\ FrameOf(last.data).Origin = NameOf(last.node)
    /\ FrameOf(last.data).Destination = Broadcast
    /\ last.out = <<CreateTokenPacket>>
    /\ machines[last.node].queue = <<>>
    /\ ~machines[last.node].waitingForData
    /\ ~machines[last.node].hasToken
    /\ \A n \in Node \ {last.node} : machines[n].status.MessagesReceived = 1

\* C30: the return of a machine's own broadcast leaves the count of the
\* messages that machine received as it was: a broadcast frame adds to the
\* count only of a machine that is not its origin.
C30_BroadcastCountedByOthers ==
    [][\A n \in Node :
          (/\ Received(n)
           /\ IsFrame(last'.data)
           /\ FrameOf(last'.data).Destination = Broadcast
           /\ FrameOf(last'.data).Origin = NameOf(n)) =>
             machines'[n].status.MessagesReceived = machines[n].status.MessagesReceived]_vars

\* This step is machine n receiving a frame another machine addressed to it.
ReceivedAsDestination(n) ==
    /\ Received(n)
    /\ IsFrame(last'.data)
    /\ FrameOf(last'.data).Destination = NameOf(n)
    /\ FrameOf(last'.data).Origin # NameOf(n)

\* The part of a machine the handling of a frame for it or for others must
\* leave alone: hasToken, waitingForData, currentDataMsg and the queue.
Holding(mach) ==
    [hasToken |-> mach.hasToken, waitingForData |-> mach.waitingForData,
     currentDataMsg |-> mach.currentDataMsg, queue |-> mach.queue]

\* C31: a machine that receives a frame another machine addressed to it sends
\* exactly one frame, of the same origin, destination, checksum and payload,
\* whose control is ACK if VerifyIntegrity is true of the frame received and
\* NAK if not; its hasToken, waitingForData, currentDataMsg and queue stay as
\* they were.
C31_DestinationAnswers ==
    [][\A n \in Node :
          ReceivedAsDestination(n) =>
             LET f == FrameOf(last'.data)
             IN  /\ Len(last'.out) = 1
                 /\ IsFrame(last'.out[1])
                 /\ FrameOf(last'.out[1]).Origin = f.Origin
                 /\ FrameOf(last'.out[1]).Destination = f.Destination
                 /\ FrameOf(last'.out[1]).CRC = f.CRC
                 /\ FrameOf(last'.out[1]).Message = f.Message
                 /\ FrameOf(last'.out[1]).Control =
                        (IF VerifyIntegrity(f) THEN ControlACK ELSE ControlNAK)
                 /\ Holding(machines'[n]) = Holding(machines[n])]_vars

\* C31, its case: a machine has answered NAK to a frame for it whose checksum
\* was wrong.
C31_Witness ==
    /\ last.op = "handleReceivedData"
    /\ IsFrame(last.data)
    /\ FrameOf(last.data).Destination = NameOf(last.node)
    /\ FrameOf(last.data).Origin # NameOf(last.node)
    /\ ~VerifyIntegrity(FrameOf(last.data))
    /\ Len(last.out) = 1
    /\ FrameOf(last.out[1]).Control = ControlNAK

\* C32: a machine that receives a frame another machine addressed to it counts
\* it once: as a message received if VerifyIntegrity is true of the frame, as
\* an error detected if not, and then not as a message received.
C32_DestinationCounters ==
    [][\A n \in Node :
          ReceivedAsDestination(n) =>
             LET before == machines[n].status
                 after == machines'[n].status
             IN  IF VerifyIntegrity(FrameOf(last'.data))
                 THEN /\ after.MessagesReceived = Inc(before.MessagesReceived)
                      /\ after.ErrorsDetected = before.ErrorsDetected
                 ELSE /\ after.ErrorsDetected = Inc(before.ErrorsDetected)
                      /\ after.MessagesReceived = before.MessagesReceived]_vars

\* This step is machine n receiving a frame of another machine that is for a
\* third name or for all.
ReceivedToForward(n) ==
    /\ Received(n)
    /\ IsFrame(last'.data)
    /\ FrameOf(last'.data).Origin # NameOf(n)
    /\ FrameOf(last'.data).Destination # NameOf(n)

\* C33: a machine that receives a frame of another machine, for a third name
\* or for TODOS, sends exactly the datagram it received, once, and its
\* hasToken, waitingForData, currentDataMsg and queue stay as they were.
C33_ForwardedIntact ==
    [][\A n \in Node :
          ReceivedToForward(n) =>
             /\ last'.out = <<last'.data>>
             /\ Holding(machines'[n]) = Holding(machines[n])]_vars

\* C33, its case: a machine has forwarded a frame that the destination had
\* answered with ACK before; and a machine has forwarded a broadcast.
C33_Witness ==
    /\ last.op = "handleReceivedData"
    /\ IsFrame(last.data)
    /\ FrameOf(last.data).Origin # NameOf(last.node)
    /\ FrameOf(last.data).Destination \in RingNames \ {NameOf(last.node)}
    /\ FrameOf(last.data).Control = ControlACK
    /\ last.out = <<last.data>>

C33_WitnessBroadcast ==
    /\ last.op = "handleReceivedData"
    /\ IsFrame(last.data)
    /\ FrameOf(last.data).Origin # NameOf(last.node)
    /\ FrameOf(last.data).Destination = Broadcast
    /\ last.out = <<last.data>>

\* This step is the goroutine Start launched at the generator running
\* generateInitialToken for the first time.
StartupGeneration ==
    /\ last'.op = "generateInitialToken"
    /\ last'.node = Generator
    /\ machines[Generator].status.TokensGenerated = 0
    /\ goroutines'[Generator] < goroutines[Generator]

\* C34: after the generation of the token at startup the generator itself holds
\* the token (hasToken) with its hold timer armed, and has counted one token
\* generated.
C34_GeneratorHoldsFirst ==
    [][StartupGeneration =>
          /\ machines'[Generator].hasToken
          /\ machines'[Generator].tokenTimeout = "armed"
          /\ machines'[Generator].status.TokensGenerated = 1]_vars

\* This step is the receive loop of machine n taking a token it received: all
\* of handleToken, or its critical section where the loop is modelled in steps.
TokenTaken(n) ==
    /\ last'.op = "handleReceivedData"
    /\ last'.node = n
    /\ IsTokenPacket(last'.data)
    /\ IF loop[n].pc = "handle" THEN loop'[n].pc = "timer"
       ELSE loop' = loop /\ net' # net

\* This step is the receive loop of machine n leaving handleToken.
TokenHandled(n) ==
    \/ TokenTaken(n) /\ loop'[n].pc = "read"
    \/ loop[n].pc = "timer" /\ loop'[n].pc = "read"

\* This step is the hold timer of machine n expiring.
Expires(n) ==
    /\ machines[n].tokenTimeout = "armed"
    /\ machines'[n].tokenTimeout = "fired"

\* C35: a machine that receives a token takes it in whatever state it is:
\* hasToken becomes true and the count of tokens goes up by one; when the
\* machine leaves handleToken its hold timer is armed and it holds the token;
\* and a hold timer that was armed before does not expire once the token is
\* taken: it is cancelled, so that one expiry follows the token.
C35_TokenAccepted ==
    [][\A n \in Node :
          /\ TokenTaken(n) =>
                /\ machines'[n].hasToken
                /\ machines'[n].status.TokensProcessed = Inc(machines[n].status.TokensProcessed)
          /\ TokenHandled(n) =>
                /\ machines'[n].hasToken
                /\ machines'[n].tokenTimeout = "armed"
          /\ loop[n].pc = "timer" => ~Expires(n)]_vars

\* This step is the callback of the hold timer of machine n, which holds the
\* token, coming to its end.
CallbackEnds(n) ==
    /\ last'.op = "processToken"
    /\ last'.node = n
    /\ machines[n].hasToken
    /\ machines[n].tokenTimeout \in {"armed", "isEmpty", "notEmpty"}
    /\ machines'[n].tokenTimeout = "fired"

\* C36: the callback of the hold timer never changes the queue.  If it found
\* the queue empty it sends exactly one token and no frame and hasToken becomes
\* false, and a message queued meanwhile stays queued; otherwise it sends
\* exactly one frame, made of the head of the queue, and keeps the token.
C36_ExpiryOnEmptyQueue ==
    [][\A n \in Node :
          CallbackEnds(n) =>
             /\ machines'[n].queue = machines[n].queue
             /\ IF machines[n].tokenTimeout = "isEmpty"
                   \/ (machines[n].tokenTimeout = "armed" /\ machines[n].queue = <<>>)
                THEN /\ last'.out = <<CreateTokenPacket>>
                     /\ ~machines'[n].hasToken
                ELSE /\ Len(last'.out) = 1
                     /\ IsFrame(last'.out[1])
                     /\ FrameOf(last'.out[1]).Destination = Head(machines[n].queue).Destination
                     /\ FrameOf(last'.out[1]).Message = Head(machines[n].queue).Content
                     /\ machines'[n].hasToken]_vars

\* C36, its case: the callback found the queue empty, the console queued a
\* message, and the callback passed the token and left the message queued.
C36_Witness ==
    /\ last.op = "processToken"
    /\ last.out = <<CreateTokenPacket>>
    /\ ~machines[last.node].hasToken
    /\ Len(machines[last.node].queue) = 1
    /\ machines[last.node].queue[1].Retries = 0
    /\ ~machines[last.node].waitingForData

\* This step is machine n, awaiting, receiving the frame it has in flight with a
\* control that is none of the three.
ReturnWithUnknownControl(n) ==
    /\ ReturnOfAwaited(n)
    /\ FrameOf(last'.data).Destination # Broadcast
    /\ FrameOf(last'.data).Control \notin Controls

\* C37: a machine that awaits its unicast frame and receives it with a control
\* that is none of ACK, NAK and maquinanaoexiste drops the frame and still
\* releases the token: it awaits no longer, has no frame in flight, sends
\* exactly one token and nothing else, and holds the token no longer.
C37_UnknownControl ==
    [][\A n \in Node :
          ReturnWithUnknownControl(n) =>
              /\ ~machines'[n].waitingForData
              /\ machines'[n].currentDataMsg = NoFrame
              /\ last'.out = <<CreateTokenPacket>>
              /\ ~machines'[n].hasToken]_vars

\* This step is machine n handling a datagram that is neither the token nor a
\* data frame.
ReceivedMalformed(n) ==
    /\ last'.op = "handleReceivedData"
    /\ last'.node = n
    /\ <<net, faults>>' # <<net, faults>>
    /\ ~IsTokenPacket(last'.data)
    /\ ParseDataPacket(last'.data).err

\* C38: a machine that receives a datagram that is neither the token (white
\* space around it trimmed) nor a well-formed data frame is left as it was,
\* its token, its wait, its frame in flight, its queue and its counters, and
\* sends nothing: no datagram is in transit that was not before.
C38_MalformedDropped ==
    [][\A n \in Node :
          ReceivedMalformed(n) =>
              /\ machines'[n] = machines[n]
              /\ last'.out = <<>>
              /\ \/ net' = net
                 \/ net' = net (-) SetToBag({[to |-> n, data |-> last'.data]})]_vars

\* A machine that awaits the return of its frame has dropped the token literal
\* with a character after it.
C38_Witness ==
    /\ last.op = "handleReceivedData"
    /\ last.data = "1000x"
    /\ last.out = <<>>
    /\ machines[last.node].waitingForData
    /\ machines[last.node].hasToken

\* A machine that holds the token has dropped a frame of three fields, and
\* counted nothing.
C38_WitnessShortFrame ==
    /\ last.op = "handleReceivedData"
    /\ last.data = "2000;Alice:Bob"
    /\ machines[last.node].hasToken
    /\ machines[last.node].status.MessagesReceived = 0

\* C39: in every reachable state, a machine that awaits the return of a frame
\* holds the token and has a message queued; and hasToken becomes false only
\* in a step in which the machine sends a token downstream.
C39_AwaitingHolding ==
    /\ [](\A n \in Node :
            machines[n].waitingForData =>
                machines[n].hasToken /\ machines[n].queue # <<>>)
    /\ [][\A n \in Node :
            (machines[n].hasToken /\ ~machines'[n].hasToken) => EmitsToken(n)]_vars

\* The counters of the status.
Counters ==
    {"TokensProcessed", "MessagesSent", "MessagesReceived", "ErrorsDetected", "TokensGenerated"}

\* C40: in every reachable state the HasToken of a machine's status equals its
\* hasToken, and the HasToken that GetStatus has just reported is the
\* machine's; and no step lowers a counter of the status.
C40_StatusAgrees ==
    /\ [](/\ \A n \in Node : machines[n].status.HasToken = machines[n].hasToken
          /\ last.op = "GetStatus" =>
                last.status.HasToken = machines[last.node].hasToken)
    /\ [][\A n \in Node : \A c \in Counters :
            machines'[n].status[c] >= machines[n].status[c]]_vars

\* GetStatus has reported a machine that holds the token and awaits the return
\* of the one message it has queued and sent.
C40_Witness ==
    /\ last.op = "GetStatus"
    /\ last.status.HasToken
    /\ last.status.QueueSize = 1
    /\ last.status.MessagesSent = 1
    /\ last.status.TokensProcessed = 1
    /\ machines[last.node].waitingForData

\* GetStatus has reported a machine that has passed the token on.
C40_WitnessPassed ==
    /\ last.op = "GetStatus"
    /\ ~last.status.HasToken
    /\ last.status.TokensProcessed = 1

=============================================================================
